---------------------------- MODULE Spec2Model ----------------------------
(***************************************************************************)
(* A model of automl-translation-tools:                                    *)
(*   - the split-count function _autosplit_example_count (autosplit.py),   *)
(*   - the online splitter AutoSplitUtil.autosplit (autosplit.py),         *)
(*   - the TMX pull parser TmxParser and its element parsers, the TSV      *)
(*     parser TsvParser, and the two exporters (parser_util.py),           *)
(*   - the functions behind the commands with the files they open, and    *)
(*     chains of conversions between the two formats.                      *)
(* The specifications share the variables; each one leaves the variables   *)
(* of the other components at their initial values.                        *)
(***************************************************************************)
EXTENDS Integers, Sequences, FiniteSets, TLC

VARIABLES
  \* ---- _autosplit_example_count, applied to an argument
  total_example_count,  \* the argument
  count_result,         \* <<the returned dict>>, or <<>> before the call returns
  \* ---- AutoSplitUtil
  total_size,           \* constructor argument total_size
  input_paths,          \* self._input_paths: per file, what its parser yields
  example_counts,       \* self._example_counts: MLUse -> remaining quota
  exporters,            \* the three exporters of autosplit(), by MLUse
  file_idx,             \* position of "for input_path in self._input_paths"
  pairs_read,           \* pairs the current file's parser has yielded so far
  split_pc,             \* position in autosplit(): new, iterating, done, failed
  split_err,            \* the exception that ended autosplit(), or NoError
  \* ---- TmxParser and the caller iterating over it
  src_lang,             \* self._src_lang
  dst_lang,             \* self._dst_lang
  skip_invalid,         \* what _skip_invalid_tmx_data() returns: False as
                        \* written, True with the tolerance switch on
  stream,               \* self._tmx_stream: lines read, and whether it is at EOF
  line_index,           \* self._line_index
  next_read_line_index, \* self._next_read_line_index
  skipped_phrases,      \* self._skipped_phrases
  buffered_parsed_pairs,\* self._buffered_parsed_pairs
  buffered_pairs_index, \* self._buffered_pairs_index
  tag_name_stack,       \* self._tag_name_stack
  header_inited,        \* self._header_inited
  body_inited,          \* self._body_inited
  buff,                 \* _read_next's local buff, by its length
  buff_total_size,      \* _read_next's local buff_total_size
  xml,                  \* self._parser: the open elements of the lxml tree
  event,                \* the loop variables of _read_next: (action, element.tag)
  opened,               \* history: the tags whose start event was pushed
  returned,             \* the pairs next() has returned to the caller
  tmx_pc,               \* position in next(): idle, read, chunk, finished, failed
  tmx_err,              \* the exception that ended the iteration, or NoErr
  \* ---- tuvVars
  tuv_element,          \* the tuv element _parse_tuv_element is called on
  tuv_result,           \* <<what the call returned>>, or <<>> before it returns
  \* ---- tuVars
  tu_codes,             \* the (src_lang_code, dst_lang_code) of the parser _parse_tu_element belongs to
  tu_element,           \* the tuv children of the tu _parse_tu_element is called on
  tu_result,            \* <<what the call returned>>, or <<>> before it returns
  \* ---- tsvVars
  tsv_input,            \* the whole content of the stream a TsvParser is constructed on
  tsv_stream,           \* self._tsv_stream: the content not read yet
  tsv_line_index,       \* self._line_index of the TsvParser
  tsv_next_read_line_index, \* self._next_read_line_index of the TsvParser
  tsv_returned,         \* the pairs next() of the TsvParser has returned
  tsv_pc,               \* the iteration over the TsvParser: idle, finished, failed
  tsv_err,              \* the exception that ended the iteration, or NoErr
  \* ---- cmdVars
  cmd_call,             \* the call: the function called, its input files and its output paths
  cmd_pc,               \* the position inside the called function
  cmd_file,             \* the index of the input path of the current iteration
  cmd_left,             \* the pairs the current parser has still to yield
  io_log,               \* the files opened so far, in order: <<mode, index of the path>>
  cmd_exports,          \* per output path, the calls made on its exporter, in order
  cmd_total,            \* total_counts of iterate_parallel_phrases
  cmd_draws,            \* the number of calls of random.randint
  cmd_counts,           \* self._example_counts of the AutoSplitUtil of the call
  cmd_err,              \* the exception that left the called function, or NoError
  \* ---- rtVars
  rt_pairs,             \* the phrase pairs a chain of conversions starts from
  rt_cur,               \* the pairs in hand: rt_pairs, then what the last parser yielded
  rt_file,              \* the file written last: its codec and its content
  rt_trail,             \* the files written so far, in order
  rt_phase              \* pairs (pairs in hand), file (a file to parse), failed (a parser raised)

countVars == <<total_example_count, count_result>>
splitVars == <<total_size, input_paths, example_counts, exporters, file_idx,
               pairs_read, split_pc, split_err>>
tmxVars == <<src_lang, dst_lang, skip_invalid, stream, line_index,
             next_read_line_index, skipped_phrases, buffered_parsed_pairs,
             buffered_pairs_index, tag_name_stack, header_inited, body_inited,
             buff, buff_total_size, xml, event, opened, returned, tmx_pc,
             tmx_err>>
tuvVars == <<tuv_element, tuv_result>>
tuVars == <<tu_codes, tu_element, tu_result>>
tsvVars == <<tsv_input, tsv_stream, tsv_line_index, tsv_next_read_line_index, tsv_returned, tsv_pc, tsv_err>>
cmdVars == <<cmd_call, cmd_pc, cmd_file, cmd_left, io_log, cmd_exports, cmd_total, cmd_draws, cmd_counts, cmd_err>>
rtVars == <<rt_pairs, rt_cur, rt_file, rt_trail, rt_phase>>
extraVars == <<tuvVars, tuVars, tsvVars, cmdVars, rtVars>>
vars == <<countVars, splitVars, tmxVars, extraVars>>

----------------------------------------------------------------------------
(* Bounds of the model *)

\* largest argument _autosplit_example_count is applied to on its own
MaxCountArg == 120
\* largest total_size given to AutoSplitUtil, besides the test's 100
MaxTotalSize == 5
\* most input files of one autosplit run
MaxFiles == 2
\* most pairs one input file yields, besides the test's 100-line file
MaxPairs == 3

\* most chunks readline returns for one TMX document
MaxLines == 2
\* deepest nesting of elements in a TMX document
MaxDepth == 5
\* most elements with an unrecognized tag open at a time
MaxOpenOther == 1
\* most tu elements in a TMX document
MaxTus == 2
\* most tuv children of one tu
MaxTuvs == 2
\* children of the tuv element _parse_tuv_element is applied to on its own
MaxChildren == 3

\* tuv children of the tu _parse_tu_element is applied to on its own
MaxTuChildren == 3

\* most text nodes inside one tuv
MaxTexts == 1

\* total_size and number of lines of source.tsv in test_auto_split_util
TestTotalSize == 100
\* length of the one-line document of test_invalid_tmx
ShortLineLen == 20

----------------------------------------------------------------------------
(* autosplit.py: MLUse and _autosplit_example_count *)

UNASSIGNED == 0
TRAIN == 1
VALIDATION == 2
TEST == 3

ML_USES == <<TRAIN, VALIDATION, TEST>>

MLUseSet == {ML_USES[k] : k \in 1..Len(ML_USES)}

\* math.ceil of the rational num/den (den > 0); \div rounds towards minus
\* infinity
Ceil(num, den) == -((-num) \div den)

NoError == "NoError"

\* validation count as an independent rounding of 10% (a different policy)
autosplit_example_count_indep(n) ==
  LET train == Ceil(8 * n, 10)
      validation == Ceil(n, 10)
  IN  (TRAIN :> train) @@ (VALIDATION :> validation)
        @@ (TEST :> n - validation - train)

\* The floating-point products n * 0.8 and n * 0.9 are within half an ulp of
\* the exact tenths 8n/10 and 9n/10 (0.8 and 0.9 round up by 2^-54 and less,
\* relative), so an exact multiple of ten comes out as the exact integer and
\* every other value keeps its fractional part of at least 0.1; the
\* subtraction of the integer train count is exact.  math.ceil therefore
\* returns the ceiling of the exact rational for every count a file can hold.
autosplit_example_count(n) ==
  LET train == Ceil(8 * n, 10)
      validation == Ceil(9 * n - 10 * train, 10)
  IN  (TRAIN :> train) @@ (VALIDATION :> validation)
        @@ (TEST :> n - validation - train)

----------------------------------------------------------------------------
(* autosplit.py: AutoSplitUtil *)

\* sum(self._example_counts.values())
SumCounts(counts) == counts[TRAIN] + counts[VALIDATION] + counts[TEST]

RECURSIVE AssignWalk(_, _, _)
AssignWalk(counts, example_index, k) ==
  IF k > Len(ML_USES) THEN TRAIN
  ELSE IF example_index < counts[ML_USES[k]] THEN ML_USES[k]
  ELSE AssignWalk(counts, example_index - counts[ML_USES[k]], k + 1)

RECURSIVE AssignWalkLeq(_, _, _)
AssignWalkLeq(counts, example_index, k) ==
  IF k > Len(ML_USES) THEN TRAIN
  ELSE IF example_index <= counts[ML_USES[k]] THEN ML_USES[k]
  ELSE AssignWalkLeq(counts, example_index - counts[ML_USES[k]], k + 1)

\* the walk with an off-by-one comparison (<= for <)
assign_ml_use_leq(counts, example_index) == AssignWalkLeq(counts, example_index, 1)

\* _assign_ml_use for the drawn example_index
assign_ml_use(counts, example_index) == AssignWalk(counts, example_index, 1)

\* an update that takes two from the chosen quota
select_ml_use_twice(counts, ml_use_value) ==
  [counts EXCEPT ![ml_use_value] = @ - 2]

\* _select_ml_use
select_ml_use(counts, ml_use_value) ==
  [counts EXCEPT ![ml_use_value] = @ - 1]

StopIteration == "StopIteration"
InvalidFileFormatError == "InvalidFileFormatError"
ValueError == "ValueError"

\* how the iteration over one parser ends
Endings == {StopIteration, InvalidFileFormatError}

FileRecs == [pairs : 0..MaxPairs, ending : Endings]

\* the input of test_auto_split_util: one file of 100 valid lines
TestInput == <<[pairs |-> TestTotalSize, ending |-> StopIteration]>>

InputSets ==
  UNION {[1..n -> FileRecs] : n \in 0..MaxFiles} \cup {TestInput}

TotalSizes == 0..MaxTotalSize \cup {TestTotalSize}

NewExporter == [initialized |-> FALSE, fed |-> 0, finalized |-> FALSE]

RECURSIVE TotalPairs(_)
TotalPairs(paths) ==
  IF paths = <<>> THEN 0 ELSE Head(paths).pairs + TotalPairs(Tail(paths))

AllEndNormally(paths) ==
  \A k \in 1..Len(paths) : paths[k].ending = StopIteration

\* AutoSplitUtil.__init__
SplitInit ==
  /\ total_example_count = 0
  /\ count_result = <<>>
  /\ total_size \in TotalSizes
  /\ input_paths \in InputSets
  /\ example_counts = autosplit_example_count(total_size)
  /\ exporters = [u \in MLUseSet |-> NewExporter]
  /\ file_idx = 1
  /\ pairs_read = 0
  /\ split_pc = "new"
  /\ split_err = NoError
  /\ src_lang = <<"e", "n">>
  /\ dst_lang = <<"z", "h">>
  /\ skip_invalid = FALSE
  /\ stream = [lines |-> 0, eof |-> FALSE]
  /\ line_index = 0
  /\ next_read_line_index = 0
  /\ skipped_phrases = <<>>
  /\ buffered_parsed_pairs = <<>>
  /\ buffered_pairs_index = 0
  /\ tag_name_stack = <<"">>
  /\ header_inited = FALSE
  /\ body_inited = FALSE
  /\ buff = 0
  /\ buff_total_size = 0
  /\ xml = [open |-> <<>>, root_closed |-> FALSE, n_tu |-> 0]
  /\ event = [action |-> "none", tag |-> ""]
  /\ opened = {}
  /\ returned = <<>>
  /\ tmx_pc = "idle"
  /\ tmx_err = [type |-> "NoError", line |-> 0, message |-> ""]
  /\ tuv_element = [lang |-> <<"None">>, children |-> <<>>]
  /\ tuv_result = <<>>
  /\ tu_codes = <<<<"e", "n">>, <<"z", "h">>>>
  /\ tu_element = <<>>
  /\ tu_result = <<>>
  /\ tsv_input = <<>>
  /\ tsv_stream = <<>>
  /\ tsv_line_index = 0
  /\ tsv_next_read_line_index = 0
  /\ tsv_returned = <<>>
  /\ tsv_pc = "idle"
  /\ tsv_err = [type |-> "NoError", line |-> 0, message |-> ""]
  /\ cmd_call = [cmd |-> "none", inputs |-> <<>>, outputs |-> <<>>]
  /\ cmd_pc = "idle"
  /\ cmd_file = 0
  /\ cmd_left = 0
  /\ io_log = <<>>
  /\ cmd_exports = <<>>
  /\ cmd_total = 0
  /\ cmd_draws = 0
  /\ cmd_counts = <<0, 0, 0>>
  /\ cmd_err = "NoError"
  /\ rt_pairs = <<>>
  /\ rt_cur = <<>>
  /\ rt_file = [codec |-> "none", content |-> <<>>]
  /\ rt_trail = <<>>
  /\ rt_phase = "idle"

\* autosplit(), lines 103-115: the outputs are opened, the exporters created
\* and each one initialized
AutosplitBegin ==
  /\ split_pc = "new"
  /\ exporters' = [u \in MLUseSet |-> [exporters[u] EXCEPT !.initialized = TRUE]]
  /\ split_pc' = "iterating"
  /\ UNCHANGED <<countVars, tmxVars, extraVars, total_size, input_paths, example_counts, file_idx,
                 pairs_read, split_err>>

InFile == split_pc = "iterating" /\ file_idx <= Len(input_paths)

\* one iteration of "for src_text, dst_text in parser" (lines 123-127) with a
\* successful draw
FeedPair ==
  /\ InFile
  /\ pairs_read < input_paths[file_idx].pairs
  /\ SumCounts(example_counts) - 1 >= 0
  /\ \E example_index \in 0..(SumCounts(example_counts) - 1) :
       LET ml_use_value == assign_ml_use(example_counts, example_index)
       IN  /\ exporters' = [exporters EXCEPT ![ml_use_value].fed = @ + 1]
           /\ example_counts' = select_ml_use(example_counts, ml_use_value)
  /\ pairs_read' = pairs_read + 1
  /\ UNCHANGED <<countVars, tmxVars, extraVars, total_size, input_paths, file_idx, split_pc, split_err>>

\* the parser yields a pair and random.randint(0, -1) raises ValueError
\* (line 75): the exception leaves autosplit() past line 128
DrawFails ==
  /\ InFile
  /\ pairs_read < input_paths[file_idx].pairs
  /\ SumCounts(example_counts) - 1 < 0
  /\ split_pc' = "failed"
  /\ split_err' = ValueError
  /\ UNCHANGED <<countVars, tmxVars, extraVars, total_size, input_paths, example_counts, exporters,
                 file_idx, pairs_read>>

\* the parser raises InvalidFileFormatError: the exception leaves autosplit()
\* past line 128
ParserFails ==
  /\ InFile
  /\ pairs_read = input_paths[file_idx].pairs
  /\ input_paths[file_idx].ending = InvalidFileFormatError
  /\ split_pc' = "failed"
  /\ split_err' = InvalidFileFormatError
  /\ UNCHANGED <<countVars, tmxVars, extraVars, total_size, input_paths, example_counts, exporters,
                 file_idx, pairs_read>>

\* the parser raises StopIteration: the for loop of line 123 ends and the
\* loop of line 116 takes the next input path
FileEnds ==
  /\ InFile
  /\ pairs_read = input_paths[file_idx].pairs
  /\ input_paths[file_idx].ending = StopIteration
  /\ file_idx' = file_idx + 1
  /\ pairs_read' = 0
  /\ UNCHANGED <<countVars, tmxVars, extraVars, total_size, input_paths, example_counts, exporters,
                 split_pc, split_err>>

\* lines 128-129, after the last input path
AutosplitFinish ==
  /\ split_pc = "iterating"
  /\ file_idx > Len(input_paths)
  /\ exporters' = [u \in MLUseSet |-> [exporters[u] EXCEPT !.finalized = TRUE]]
  /\ split_pc' = "done"
  /\ UNCHANGED <<countVars, tmxVars, extraVars, total_size, input_paths, example_counts, file_idx,
                 pairs_read, split_err>>

SplitNext ==
  \/ AutosplitBegin
  \/ FeedPair
  \/ DrawFails
  \/ ParserFails
  \/ FileEnds
  \/ AutosplitFinish

SpecSplit == SplitInit /\ [][SplitNext]_vars

----------------------------------------------------------------------------
(* parser_util.py: language codes and texts, as sequences of characters *)

UpperChars == <<"E", "N", "U", "S", "G", "B", "Z", "H", "J", "A">>
LowerChars == <<"e", "n", "u", "s", "g", "b", "z", "h", "j", "a">>

\* str.lower() on one character
LowerChar(c) ==
  IF \E k \in 1..Len(UpperChars) : UpperChars[k] = c
  THEN LowerChars[CHOOSE k \in 1..Len(UpperChars) : UpperChars[k] = c]
  ELSE c

Lower(str) == [k \in 1..Len(str) |-> LowerChar(str[k])]

\* str.split('-')[0]
RECURSIVE BeforeDash(_)
BeforeDash(str) ==
  IF str = <<>> \/ Head(str) = "-" THEN <<>>
  ELSE <<Head(str)>> \o BeforeDash(Tail(str))

\* the code compared as it is written (no lower-casing, no truncation)
parse_locale_raw(lang_code) == lang_code

\* _parse_locale
parse_locale(lang_code) == BeforeDash(Lower(lang_code))

\* _is_same_language
is_same_language(locale1, locale2) == locale1 = locale2

LangEn == <<"e", "n">>
LangEnUS == <<"E", "N", "-", "U", "S">>
LangEnGB == <<"e", "n", "-", "G", "B">>
LangZh == <<"z", "h">>
LangJa == <<"j", "a">>

\* the (src_lang_code, dst_lang_code) a parser is constructed with
ConfigCodes == {<<LangEnGB, LangZh>>}

\* Python's None where a string is expected; strings are sequences of
\* characters, and this one is no string
None == <<"None">>

\* "not x" for x a string or None
IsFalsy(x) == x = None \/ x = <<>>

\* the values of xml:lang on a tuv: element.get returns None for an absent
\* attribute
DocLangs == {None, LangEnUS, LangZh, LangJa}

\* the values of srclang on a header: absent, empty, and two language codes
DocSrclangs == {None, <<>>, LangEnUS, LangJa}

\* the text nodes of a document: the ones inside the n-th tu hold the n-th
\* of these letters, so that the sentences of different tu elements differ
DocLetters == <<"b", "c", "d">>
LetterOfTu(n) == DocLetters[((n - 1) % Len(DocLetters)) + 1]
DocTexts(n) == {<<" ", LetterOfTu(n), " ">>}

IsSpace(c) == c \in {" ", "\t", "\n", "\r"}

\* str.strip()
RECURSIVE LStrip(_)
LStrip(str) ==
  IF str # <<>> /\ IsSpace(Head(str)) THEN LStrip(Tail(str)) ELSE str

RECURSIVE RStrip(_)
RStrip(str) ==
  IF str # <<>> /\ IsSpace(str[Len(str)])
  THEN RStrip(SubSeq(str, 1, Len(str) - 1)) ELSE str

Strip(str) == RStrip(LStrip(str))

\* ' '.join(text.strip() for text in texts if text.strip())
RECURSIVE JoinStripped(_)
JoinStripped(texts) ==
  IF texts = <<>> THEN <<>>
  ELSE LET first == Strip(Head(texts))
           rest == JoinStripped(Tail(texts))
       IN  IF first = <<>> THEN rest
           ELSE IF rest = <<>> THEN first
           ELSE first \o <<" ">> \o rest

----------------------------------------------------------------------------
(* parser_util.py: TmxParser *)

SENTENCE_BUFFER_SIZE == 1048576
MAX_SKIPPED_PHRASES == 1024

PARENT_TAG_NAME ==
  ("tmx" :> "") @@ ("header" :> "tmx") @@ ("body" :> "tmx")
    @@ ("tu" :> "body") @@ ("tuv" :> "tu") @@ ("seg" :> "tuv")

RecognizedTags == DOMAIN PARENT_TAG_NAME

\* the tags of a document: the recognized ones and one other tag
DocTags == RecognizedTags \cup {"note"}

NoErr == [type |-> "NoError", line |-> 0, message |-> ""]
NoEvent == [action |-> "none", tag |-> ""]

XMLSyntaxError == "XMLSyntaxError"

Top(stack) == stack[Len(stack)]

\* current_line_number
current_line_number(index) == index + 1

\* invalid_format_error
invalid_format_error(index, message, show_line_index) ==
  [type |-> InvalidFileFormatError,
   line |-> IF show_line_index THEN current_line_number(index) ELSE 0,
   message |-> message]

MsgStructure == "Invalid tag structure"
MsgDupHeader == "Duplicate header tag."
MsgDupBody == "Duplicate body tag."
MsgHeaderFirst == "header should before body."
MsgUnclosed == "Unclosed tag"
MsgHeaderLang == "Language in header doesn't match language declared"
MsgNoBoth == "No sentence found in source and target languages in this <tu>"
MsgNoSrc == "No sentence found in source language in this <tu>"
MsgNoDst == "No sentence found in target language in this <tu>"
MsgTooMany == "Too many sentence pair errors"
MsgBuffer == "Exceeded buffer limit"
MsgSyntax == "XMLSyntaxError message"

Verified(stack, h_inited) ==
  [stack |-> stack, header_inited |-> h_inited, message |-> ""]
Refused(stack, h_inited, message) ==
  [stack |-> stack, header_inited |-> h_inited, message |-> message]

\* _verify_element without the parent check of lines 438-441
verify_element_no_parent(action, tag, stack, h_inited, b_inited) ==
  IF tag \notin RecognizedTags THEN Verified(stack, h_inited)
  ELSE IF action = "start" THEN
    IF tag = "header" /\ h_inited
      THEN Refused(stack, h_inited, MsgDupHeader)
    ELSE IF tag = "body" /\ b_inited
      THEN Refused(stack, h_inited, MsgDupBody)
    ELSE IF tag = "body" /\ ~h_inited
      THEN Refused(stack, h_inited, MsgHeaderFirst)
    ELSE Verified(Append(stack, tag), h_inited \/ tag = "header")
  ELSE IF Top(stack) # tag THEN Refused(stack, h_inited, MsgUnclosed)
  ELSE Verified(SubSeq(stack, 1, Len(stack) - 1), h_inited)

\* _verify_element without the duplicate-header check of lines 443-444
verify_element_no_dup_header(action, tag, stack, h_inited, b_inited) ==
  IF tag \notin RecognizedTags THEN Verified(stack, h_inited)
  ELSE IF action = "start" THEN
    IF Top(stack) # PARENT_TAG_NAME[tag]
      THEN Refused(stack, h_inited, MsgStructure)
    ELSE IF tag = "body" /\ b_inited
      THEN Refused(stack, h_inited, MsgDupBody)
    ELSE IF tag = "body" /\ ~h_inited
      THEN Refused(stack, h_inited, MsgHeaderFirst)
    ELSE Verified(Append(stack, tag), h_inited \/ tag = "header")
  ELSE IF Top(stack) # tag THEN Refused(stack, h_inited, MsgUnclosed)
  ELSE Verified(SubSeq(stack, 1, Len(stack) - 1), h_inited)

\* _verify_element without the header-before-body check of lines 449-450
verify_element_no_header_first(action, tag, stack, h_inited, b_inited) ==
  IF tag \notin RecognizedTags THEN Verified(stack, h_inited)
  ELSE IF action = "start" THEN
    IF Top(stack) # PARENT_TAG_NAME[tag]
      THEN Refused(stack, h_inited, MsgStructure)
    ELSE IF tag = "header" /\ h_inited
      THEN Refused(stack, h_inited, MsgDupHeader)
    ELSE IF tag = "body" /\ b_inited
      THEN Refused(stack, h_inited, MsgDupBody)
    ELSE Verified(Append(stack, tag), h_inited \/ tag = "header")
  ELSE IF Top(stack) # tag THEN Refused(stack, h_inited, MsgUnclosed)
  ELSE Verified(SubSeq(stack, 1, Len(stack) - 1), h_inited)

\* _verify_element without the check of lines 453-455: an end pops whatever
\* is on top
verify_element_no_unclosed(action, tag, stack, h_inited, b_inited) ==
  IF tag \notin RecognizedTags THEN Verified(stack, h_inited)
  ELSE IF action = "start" THEN
    IF Top(stack) # PARENT_TAG_NAME[tag]
      THEN Refused(stack, h_inited, MsgStructure)
    ELSE IF tag = "header" /\ h_inited
      THEN Refused(stack, h_inited, MsgDupHeader)
    ELSE IF tag = "body" /\ b_inited
      THEN Refused(stack, h_inited, MsgDupBody)
    ELSE IF tag = "body" /\ ~h_inited
      THEN Refused(stack, h_inited, MsgHeaderFirst)
    ELSE Verified(Append(stack, tag), h_inited \/ tag = "header")
  ELSE Verified(SubSeq(stack, 1, Len(stack) - 1), h_inited)

\* _verify_element: the new tag stack and _header_inited, and the message of
\* the InvalidFileFormatError it raises ("" when it returns).  _body_inited
\* is read at line 447 and assigned nowhere.
verify_element(action, tag, stack, h_inited, b_inited) ==
  IF tag \notin RecognizedTags THEN Verified(stack, h_inited)
  ELSE IF action = "start" THEN
    IF Top(stack) # PARENT_TAG_NAME[tag]
      THEN Refused(stack, h_inited, MsgStructure)
    ELSE IF tag = "header" /\ h_inited
      THEN Refused(stack, h_inited, MsgDupHeader)
    ELSE IF tag = "body" /\ b_inited
      THEN Refused(stack, h_inited, MsgDupBody)
    ELSE IF tag = "body" /\ ~h_inited
      THEN Refused(stack, h_inited, MsgHeaderFirst)
    ELSE Verified(Append(stack, tag), h_inited \/ tag = "header")
  ELSE IF Top(stack) # tag THEN Refused(stack, h_inited, MsgUnclosed)
  ELSE Verified(SubSeq(stack, 1, Len(stack) - 1), h_inited)

\* _parse_header_element that accepts every srclang
parse_header_element_any(srclang, source_locale) == ""

\* _parse_header_element: the message of the error it raises, "" when it
\* returns
parse_header_element(srclang, source_locale) ==
  IF IsFalsy(srclang) THEN ""
  ELSE IF ~is_same_language(parse_locale(srclang), source_locale)
    THEN MsgHeaderLang
  ELSE ""

\* _parse_tuv_element: (text_in_seg, language_code_without_locale)
parse_tuv_element(tuv) ==
  [text |-> Strip(JoinStripped(tuv.texts)),
   lang |-> IF ~IsFalsy(tuv.lang) THEN parse_locale(tuv.lang) ELSE tuv.lang]

\* the loop of lines 376-384 over the tuv children, from src, dst = None, None
RECURSIVE TuvLoop(_, _, _, _, _)
TuvLoop(tuvs, source_locale, target_locale, src, dst) ==
  IF tuvs = <<>> THEN [src |-> src, dst |-> dst]
  ELSE
    LET parsed == parse_tuv_element(Head(tuvs))
        found == ~IsFalsy(parsed.text) /\ ~IsFalsy(parsed.lang)
        isSrc == found /\ is_same_language(parsed.lang, source_locale)
        isDst == found /\ ~isSrc /\ is_same_language(parsed.lang, target_locale)
    IN  TuvLoop(Tail(tuvs), source_locale, target_locale,
                IF isSrc THEN parsed.text ELSE src,
                IF isDst THEN parsed.text ELSE dst)

\* _parse_tu_element without the check of lines 391-392
parse_tu_element_no_dst_check(tuvs, source_locale, target_locale) ==
  LET r == TuvLoop(tuvs, source_locale, target_locale, None, None)
  IN  [src |-> r.src, dst |-> r.dst,
       error_message |->
         IF IsFalsy(r.src) /\ IsFalsy(r.dst) THEN MsgNoBoth
         ELSE IF IsFalsy(r.src) THEN MsgNoSrc
         ELSE ""]

\* _parse_tu_element with the check of lines 389-390 made first: a tu with
\* neither text is reported as lacking the source text only
parse_tu_element_src_first(tuvs, source_locale, target_locale) ==
  LET r == TuvLoop(tuvs, source_locale, target_locale, None, None)
  IN  [src |-> r.src, dst |-> r.dst,
       error_message |->
         IF IsFalsy(r.src) THEN MsgNoSrc
         ELSE IF IsFalsy(r.dst) THEN MsgNoDst
         ELSE ""]

\* _parse_tu_element: (src, dst, error_message), "" for no error
parse_tu_element(tuvs, source_locale, target_locale) ==
  LET r == TuvLoop(tuvs, source_locale, target_locale, None, None)
  IN  [src |-> r.src, dst |-> r.dst,
       error_message |->
         IF IsFalsy(r.src) /\ IsFalsy(r.dst) THEN MsgNoBoth
         ELSE IF IsFalsy(r.src) THEN MsgNoSrc
         ELSE IF IsFalsy(r.dst) THEN MsgNoDst
         ELSE ""]

\* _skip_phrase_or_fail_parsing that lets the list grow to one more record
skip_phrase_or_fail_parsing_leq(skipped, index, src_text, dst_text, error_message) ==
  IF Len(skipped) <= MAX_SKIPPED_PHRASES
  THEN [skipped |-> Append(skipped, <<current_line_number(index), src_text,
                                      dst_text, error_message>>),
        message |-> ""]
  ELSE [skipped |-> skipped, message |-> MsgTooMany]

\* _skip_phrase_or_fail_parsing: the new skipped list and the message of the
\* error it raises, "" when it returns
skip_phrase_or_fail_parsing(skipped, index, src_text, dst_text, error_message) ==
  IF Len(skipped) < MAX_SKIPPED_PHRASES
  THEN [skipped |-> Append(skipped, <<current_line_number(index), src_text,
                                      dst_text, error_message>>),
        message |-> ""]
  ELSE [skipped |-> skipped, message |-> MsgTooMany]

\* the lxml tree once an exception has ended the iteration: nothing reads it
\* again, and the model drops it
DroppedTree == [open |-> <<>>, root_closed |-> FALSE, n_tu |-> 0]

\* TmxParser.__init__, before the first next()
TmxInit ==
  /\ total_example_count = 0
  /\ count_result = <<>>
  /\ total_size = 0
  /\ input_paths = <<>>
  /\ example_counts = [u \in MLUseSet |-> 0]
  /\ exporters = [u \in MLUseSet |-> NewExporter]
  /\ file_idx = 1
  /\ pairs_read = 0
  /\ split_pc = "new"
  /\ split_err = NoError
  /\ \E codes \in ConfigCodes :
       /\ src_lang = parse_locale(codes[1])
       /\ dst_lang = parse_locale(codes[2])
  /\ skip_invalid \in BOOLEAN
  /\ stream = [lines |-> 0, eof |-> FALSE]
  /\ line_index = 0
  /\ next_read_line_index = 0
  /\ skipped_phrases = <<>>
  /\ buffered_parsed_pairs = <<>>
  /\ buffered_pairs_index = 0
  /\ tag_name_stack = <<"">>
  /\ header_inited = FALSE
  /\ body_inited = FALSE
  /\ buff = 0
  /\ buff_total_size = 0
  /\ xml = [open |-> <<>>, root_closed |-> FALSE, n_tu |-> 0]
  /\ event = NoEvent
  /\ opened = {}
  /\ returned = <<>>
  /\ tmx_pc = "idle"
  /\ tmx_err = NoErr
  /\ tuv_element = [lang |-> <<"None">>, children |-> <<>>]
  /\ tuv_result = <<>>
  /\ tu_codes = <<<<"e", "n">>, <<"z", "h">>>>
  /\ tu_element = <<>>
  /\ tu_result = <<>>
  /\ tsv_input = <<>>
  /\ tsv_stream = <<>>
  /\ tsv_line_index = 0
  /\ tsv_next_read_line_index = 0
  /\ tsv_returned = <<>>
  /\ tsv_pc = "idle"
  /\ tsv_err = [type |-> "NoError", line |-> 0, message |-> ""]
  /\ cmd_call = [cmd |-> "none", inputs |-> <<>>, outputs |-> <<>>]
  /\ cmd_pc = "idle"
  /\ cmd_file = 0
  /\ cmd_left = 0
  /\ io_log = <<>>
  /\ cmd_exports = <<>>
  /\ cmd_total = 0
  /\ cmd_draws = 0
  /\ cmd_counts = <<0, 0, 0>>
  /\ cmd_err = "NoError"
  /\ rt_pairs = <<>>
  /\ rt_cur = <<>>
  /\ rt_file = [codec |-> "none", content |-> <<>>]
  /\ rt_trail = <<>>
  /\ rt_phase = "idle"

configVars == <<src_lang, dst_lang, skip_invalid>>
otherVars == <<countVars, splitVars, extraVars>>

\* next_parallel_phrase_pair that leaves _buffered_pairs_index where it is
NextFromBufferAgain ==
  /\ tmx_pc = "idle"
  /\ ~(Len(buffered_parsed_pairs) <= buffered_pairs_index)
  /\ returned' = Append(returned, buffered_parsed_pairs[buffered_pairs_index + 1])
  /\ Len(returned) < MaxTus
  /\ UNCHANGED <<otherVars, configVars, stream, line_index,
                 next_read_line_index, skipped_phrases, buffered_parsed_pairs,
                 buffered_pairs_index, tag_name_stack, header_inited,
                 body_inited, buff, buff_total_size, xml, event, opened,
                 tmx_pc, tmx_err>>

\* next_parallel_phrase_pair when the buffer still holds a pair (lines 308,
\* 310-312)
NextFromBuffer ==
  /\ tmx_pc = "idle"
  /\ ~(Len(buffered_parsed_pairs) <= buffered_pairs_index)
  /\ returned' = Append(returned, buffered_parsed_pairs[buffered_pairs_index + 1])
  /\ buffered_pairs_index' = buffered_pairs_index + 1
  /\ UNCHANGED <<otherVars, configVars, stream, line_index,
                 next_read_line_index, skipped_phrases, buffered_parsed_pairs,
                 tag_name_stack, header_inited, body_inited, buff,
                 buff_total_size, xml, event, opened, tmx_pc, tmx_err>>

\* next_parallel_phrase_pair when the buffer is exhausted: _read_next starts
\* (lines 308-309, 324-327)
NextReads ==
  /\ tmx_pc = "idle"
  /\ Len(buffered_parsed_pairs) <= buffered_pairs_index
  /\ buff_total_size' = 0
  /\ buffered_pairs_index' = 0
  /\ buffered_parsed_pairs' = <<>>
  /\ tmx_pc' = "read"
  /\ UNCHANGED <<otherVars, configVars, stream, line_index,
                 next_read_line_index, skipped_phrases, tag_name_stack,
                 header_inited, body_inited, buff, xml, event, opened,
                 returned, tmx_err>>

\* readline finds the stream at its end and raises ParseFinished (lines
\* 133-136); _read_next closes the lxml parser (line 332), which raises
\* XMLSyntaxError when the document is incomplete; otherwise ParseFinished
\* goes on and next() turns it into StopIteration (lines 153-154)
ReadEOF ==
  /\ tmx_pc = "read"
  /\ line_index' = next_read_line_index
  /\ stream' = [stream EXCEPT !.eof = TRUE]
  /\ IF xml.root_closed
     THEN tmx_pc' = "finished" /\ UNCHANGED tmx_err
     ELSE /\ tmx_pc' = "failed"
          /\ tmx_err' = [type |-> XMLSyntaxError, line |-> 0, message |-> MsgSyntax]
  /\ xml' = IF xml.root_closed THEN xml ELSE DroppedTree
  /\ UNCHANGED <<otherVars, configVars, next_read_line_index,
                 skipped_phrases, buffered_parsed_pairs, buffered_pairs_index,
                 tag_name_stack, header_inited, body_inited, buff,
                 buff_total_size, event, opened, returned>>

\* what stream.readline(_SENTENCE_BUFFER_SIZE) returns besides '' for the
\* lines of the documents considered: a line with its '\n', or the last line
\* of a stream that does not end in '\n'
LineShapes ==
  {[len |-> ShortLineLen, newline |-> TRUE, last |-> FALSE],
   [len |-> ShortLineLen, newline |-> FALSE, last |-> TRUE]}

\* readline returns a chunk (lines 133-145) and lxml parses it (line 335)
ReadLine ==
  /\ tmx_pc = "read"
  /\ ~stream.eof
  /\ stream.lines < MaxLines
  /\ \E shape \in LineShapes :
       /\ stream' = [lines |-> stream.lines + 1, eof |-> shape.last]
       /\ line_index' = next_read_line_index
       /\ next_read_line_index' =
            IF shape.newline THEN next_read_line_index + 1
            ELSE next_read_line_index
       /\ buff' = shape.len
  /\ tmx_pc' = "chunk"
  /\ UNCHANGED <<otherVars, configVars, skipped_phrases,
                 buffered_parsed_pairs, buffered_pairs_index, tag_name_stack,
                 header_inited, body_inited, buff_total_size, xml, event,
                 opened, returned, tmx_err>>

\* readline returns a chunk that is not well-formed XML after what was fed
\* before: feed raises XMLSyntaxError before any event of the chunk is looked
\* at, and line 338 raises the error without a line number
ReadLineSyntaxError ==
  /\ tmx_pc = "read"
  /\ ~stream.eof
  /\ stream.lines < MaxLines
  /\ \E shape \in LineShapes :
       /\ stream' = [lines |-> stream.lines + 1, eof |-> shape.last]
       /\ line_index' = next_read_line_index
       /\ next_read_line_index' =
            IF shape.newline THEN next_read_line_index + 1
            ELSE next_read_line_index
       /\ buff' = shape.len
  /\ tmx_pc' = "failed"
  /\ tmx_err' = invalid_format_error(line_index', MsgSyntax, FALSE)
  /\ xml' = DroppedTree
  /\ UNCHANGED <<otherVars, configVars, skipped_phrases,
                 buffered_parsed_pairs, buffered_pairs_index, tag_name_stack,
                 header_inited, body_inited, buff_total_size, event,
                 opened, returned>>

NewElement(tag, srclang, lang) ==
  [tag |-> tag, srclang |-> srclang, lang |-> lang, texts |-> <<>>, tuvs |-> <<>>]

\* the tree after the innermost open element is closed: a tuv becomes a
\* child of the element that holds it
CloseTop(open) ==
  LET e == Top(open)
      rest == SubSeq(open, 1, Len(open) - 1)
  IN  IF rest # <<>> /\ e.tag = "tuv" /\ Top(rest).tag = "tu"
      THEN [rest EXCEPT ![Len(rest)].tuvs =
              Append(@, [lang |-> e.lang, texts |-> e.texts])]
      ELSE rest

\* the body of "for action, element in self._events" (lines 340-351) for the
\* event (action, element); xml_after is the tree with the element started or
\* ended.  Lines 353-357 prune tu elements already handled from the lxml tree
\* and change nothing the parser reads afterwards.
LoopBody(action, element, xml_after) ==
  LET v == verify_element(action, element.tag, tag_name_stack,
                          header_inited, body_inited)
      isEnd(tag) == action = "end" /\ element.tag = tag
      headerMsg == parse_header_element(element.srclang, src_lang)
      tu == parse_tu_element(element.tuvs, src_lang, dst_lang)
      skip == skip_phrase_or_fail_parsing(skipped_phrases, line_index,
                                          tu.src, tu.dst, tu.error_message)
      message ==
        IF v.message # "" THEN v.message
        ELSE IF isEnd("header") THEN headerMsg
        ELSE IF isEnd("tu") /\ tu.error_message # ""
          THEN IF skip_invalid THEN skip.message ELSE tu.error_message
        ELSE ""
  IN  /\ event' = [action |-> action, tag |-> element.tag]
      /\ tag_name_stack' = v.stack
      /\ header_inited' = v.header_inited
      /\ opened' = IF v.message = "" /\ action = "start"
                      /\ element.tag \in RecognizedTags
                   THEN opened \cup {element.tag} ELSE opened
      /\ buffered_parsed_pairs' =
           IF v.message = "" /\ isEnd("tu") /\ tu.error_message = ""
           THEN Append(buffered_parsed_pairs, <<tu.src, tu.dst>>)
           ELSE buffered_parsed_pairs
      /\ skipped_phrases' =
           IF v.message = "" /\ isEnd("tu") /\ tu.error_message # ""
              /\ skip_invalid
           THEN skip.skipped ELSE skipped_phrases
      /\ IF message # ""
         THEN /\ tmx_pc' = "failed"
              /\ tmx_err' = invalid_format_error(line_index, message, TRUE)
              /\ xml' = DroppedTree
         ELSE /\ tmx_pc' = "chunk"
              /\ xml' = xml_after
              /\ UNCHANGED tmx_err
      /\ UNCHANGED <<otherVars, configVars, stream, line_index,
                     next_read_line_index, buffered_pairs_index, body_inited,
                     buff, buff_total_size, returned>>

\* the next event of the chunk is the start of an element: lxml has added the
\* element to the tree, and the loop body runs on ('start', element)
StartEvent ==
  /\ tmx_pc = "chunk"
  /\ ~xml.root_closed
  /\ Len(xml.open) < MaxDepth
  /\ \E tag \in DocTags, attr \in DocLangs \cup DocSrclangs :
       /\ tag = "header" => attr \in DocSrclangs
       /\ tag = "tuv" => attr \in DocLangs
       /\ tag \notin {"header", "tuv"} => attr = None
       /\ tag = "tu" => xml.n_tu < MaxTus
       /\ tag \notin RecognizedTags =>
            Cardinality({k \in 1..Len(xml.open) :
                           xml.open[k].tag \notin RecognizedTags}) < MaxOpenOther
       /\ (tag = "tuv" /\ xml.open # <<>> /\ Top(xml.open).tag = "tu") =>
            Len(Top(xml.open).tuvs) < MaxTuvs
       /\ LET element == NewElement(tag,
                           IF tag = "header" THEN attr ELSE None,
                           IF tag = "tuv" THEN attr ELSE None)
          IN  LoopBody("start", element,
                       [xml EXCEPT !.open = Append(@, element),
                                   !.n_tu = IF tag = "tu" THEN @ + 1 ELSE @])

\* the next event of the chunk is the end of the innermost open element, and
\* the loop body runs on ('end', element)
EndEvent ==
  /\ tmx_pc = "chunk"
  /\ xml.open # <<>>
  /\ LoopBody("end", Top(xml.open),
              [xml EXCEPT !.open = CloseTop(@),
                          !.root_closed = (Len(xml.open) = 1)])

InsideTuv(open) == \E k \in 1..Len(open) : open[k].tag = "tuv"

\* the chunk goes on with a text node: lxml adds it to the tree, where
\* itertext() of every enclosing tuv finds it; no event
TextNode ==
  /\ tmx_pc = "chunk"
  /\ InsideTuv(xml.open)
  /\ \A k \in 1..Len(xml.open) :
       xml.open[k].tag = "tuv" => Len(xml.open[k].texts) < MaxTexts
  /\ \E text \in DocTexts(xml.n_tu) :
       xml' = [xml EXCEPT !.open =
                 [k \in 1..Len(@) |->
                    IF @[k].tag = "tuv"
                    THEN [@[k] EXCEPT !.texts = Append(@, text)]
                    ELSE @[k]]]
  /\ UNCHANGED <<otherVars, configVars, stream, line_index,
                 next_read_line_index, skipped_phrases, buffered_parsed_pairs,
                 buffered_pairs_index, tag_name_stack, header_inited,
                 body_inited, buff, buff_total_size, opened, returned,
                 tmx_err, event, tmx_pc>>

\* the events of the chunk are used up and the chunk gave a pair: _read_next
\* returns (lines 359-360) and next_parallel_phrase_pair returns the first
\* buffered pair (lines 310-312)
ChunkEndsWithPairs ==
  /\ tmx_pc = "chunk"
  /\ buffered_parsed_pairs # <<>>
  /\ returned' = Append(returned, buffered_parsed_pairs[buffered_pairs_index + 1])
  /\ buffered_pairs_index' = buffered_pairs_index + 1
  /\ tmx_pc' = "idle"
  /\ UNCHANGED <<otherVars, configVars, stream, line_index,
                 next_read_line_index, skipped_phrases, buffered_parsed_pairs,
                 tag_name_stack, header_inited, body_inited, buff,
                 buff_total_size, xml, event, opened, tmx_err>>

\* the events of the chunk are used up and no pair is buffered: lines 361-364,
\* then the next turn of "while True"
ChunkEndsEmpty ==
  /\ tmx_pc = "chunk"
  /\ buffered_parsed_pairs = <<>>
  /\ buff_total_size' = buff_total_size + buff
  /\ IF buff_total_size' > SENTENCE_BUFFER_SIZE
     THEN /\ tmx_pc' = "failed"
          /\ tmx_err' = invalid_format_error(line_index, MsgBuffer, TRUE)
          /\ xml' = DroppedTree
     ELSE /\ tmx_pc' = "read"
          /\ UNCHANGED <<tmx_err, xml>>
  /\ UNCHANGED <<otherVars, configVars, stream, line_index,
                 next_read_line_index, skipped_phrases, buffered_parsed_pairs,
                 buffered_pairs_index, tag_name_stack, header_inited,
                 body_inited, buff, event, opened, returned>>

TmxNext ==
  \/ NextFromBuffer
  \/ NextReads
  \/ ReadEOF
  \/ ReadLine
  \/ ReadLineSyntaxError
  \/ StartEvent
  \/ EndEvent
  \/ TextNode
  \/ ChunkEndsWithPairs
  \/ ChunkEndsEmpty

SpecTmx == TmxInit /\ [][TmxNext]_vars

----------------------------------------------------------------------------
(* parser_util.py: the loop of _read_next over the tu elements of a body when
   _skip_invalid_tmx_data() is true *)

\* most valid tu elements among the erroneous ones
MaxGoodTus == 1

\* the tuv children of the n-th erroneous tu of the document: none at all, or
\* a source sentence only
BadTu(n) ==
  IF n % 2 = 1 THEN <<>>
  ELSE <<[lang |-> LangEnUS, texts |-> <<<<"a">>>>]>>

\* the tuv children of a valid tu
GoodTu ==
  <<[lang |-> LangEnUS, texts |-> <<<<"a">>>>],
    [lang |-> LangZh, texts |-> <<<<"b">>>>]>>

\* the parser has read the line with <tmx>, the header and <body>: the tu
\* elements follow
SkipInit ==
  /\ total_example_count = 0
  /\ count_result = <<>>
  /\ total_size = 0
  /\ input_paths = <<>>
  /\ example_counts = [u \in MLUseSet |-> 0]
  /\ exporters = [u \in MLUseSet |-> NewExporter]
  /\ file_idx = 1
  /\ pairs_read = 0
  /\ split_pc = "new"
  /\ split_err = NoError
  /\ \E codes \in ConfigCodes :
       /\ src_lang = parse_locale(codes[1])
       /\ dst_lang = parse_locale(codes[2])
  /\ skip_invalid = TRUE
  /\ stream = [lines |-> 1, eof |-> FALSE]
  /\ line_index = 0
  /\ next_read_line_index = 1
  /\ skipped_phrases = <<>>
  /\ buffered_parsed_pairs = <<>>
  /\ buffered_pairs_index = 0
  /\ tag_name_stack = <<"", "tmx", "body">>
  /\ header_inited = TRUE
  /\ body_inited = FALSE
  /\ buff = 0
  /\ buff_total_size = 0
  /\ xml = [open |-> <<>>, root_closed |-> FALSE, n_tu |-> 0]
  /\ event = [action |-> "start", tag |-> "body"]
  /\ opened = {"tmx", "header", "body"}
  /\ returned = <<>>
  /\ tmx_pc = "chunk"
  /\ tmx_err = NoErr
  /\ tuv_element = [lang |-> <<"None">>, children |-> <<>>]
  /\ tuv_result = <<>>
  /\ tu_codes = <<<<"e", "n">>, <<"z", "h">>>>
  /\ tu_element = <<>>
  /\ tu_result = <<>>
  /\ tsv_input = <<>>
  /\ tsv_stream = <<>>
  /\ tsv_line_index = 0
  /\ tsv_next_read_line_index = 0
  /\ tsv_returned = <<>>
  /\ tsv_pc = "idle"
  /\ tsv_err = [type |-> "NoError", line |-> 0, message |-> ""]
  /\ cmd_call = [cmd |-> "none", inputs |-> <<>>, outputs |-> <<>>]
  /\ cmd_pc = "idle"
  /\ cmd_file = 0
  /\ cmd_left = 0
  /\ io_log = <<>>
  /\ cmd_exports = <<>>
  /\ cmd_total = 0
  /\ cmd_draws = 0
  /\ cmd_counts = <<0, 0, 0>>
  /\ cmd_err = "NoError"
  /\ rt_pairs = <<>>
  /\ rt_cur = <<>>
  /\ rt_file = [codec |-> "none", content |-> <<>>]
  /\ rt_trail = <<>>
  /\ rt_phase = "idle"

skipKept == <<otherVars, configVars, stream, buffered_pairs_index,
              tag_name_stack, header_inited, body_inited, buff,
              buff_total_size, xml, event, opened, returned>>

\* the next line holds an erroneous tu: readline returns it (line 331) and
\* the loop body handles the end of the tu (lines 344-349)
SkipBadTu ==
  /\ tmx_pc = "chunk"
  /\ line_index' = next_read_line_index
  /\ next_read_line_index' = next_read_line_index + 1
  /\ LET tu == parse_tu_element(BadTu(next_read_line_index), src_lang,
                                dst_lang)
         skip == skip_phrase_or_fail_parsing(skipped_phrases, line_index',
                   tu.src, tu.dst, tu.error_message)
     IN  /\ tu.error_message # ""
         /\ skip_invalid
         /\ skipped_phrases' = skip.skipped
         /\ IF skip.message # ""
            THEN /\ tmx_pc' = "failed"
                 /\ tmx_err' = invalid_format_error(line_index',
                                                    skip.message, TRUE)
            ELSE UNCHANGED <<tmx_pc, tmx_err>>
  /\ UNCHANGED <<skipKept, buffered_parsed_pairs>>

\* a valid tu on the line last read: its pair is buffered (lines 346-347)
SkipGoodTu ==
  /\ tmx_pc = "chunk"
  /\ Len(buffered_parsed_pairs) < MaxGoodTus
  /\ LET tu == parse_tu_element(GoodTu, src_lang, dst_lang)
     IN  /\ tu.error_message = ""
         /\ buffered_parsed_pairs' =
              Append(buffered_parsed_pairs, <<tu.src, tu.dst>>)
  /\ UNCHANGED <<skipKept, line_index, next_read_line_index,
                 skipped_phrases, tmx_pc, tmx_err>>

SkipNext ==
  \/ SkipBadTu
  \/ SkipGoodTu

SpecSkip == SkipInit /\ [][SkipNext]_vars

----------------------------------------------------------------------------
(* _autosplit_example_count applied to each argument of 0..MaxCountArg *)

CountInit ==
  /\ total_example_count \in 0..MaxCountArg
  /\ count_result = <<>>
  /\ total_size = 0
  /\ input_paths = <<>>
  /\ example_counts = [u \in MLUseSet |-> 0]
  /\ exporters = [u \in MLUseSet |-> NewExporter]
  /\ file_idx = 1
  /\ pairs_read = 0
  /\ split_pc = "new"
  /\ split_err = NoError
  /\ src_lang = <<"e", "n">>
  /\ dst_lang = <<"z", "h">>
  /\ skip_invalid = FALSE
  /\ stream = [lines |-> 0, eof |-> FALSE]
  /\ line_index = 0
  /\ next_read_line_index = 0
  /\ skipped_phrases = <<>>
  /\ buffered_parsed_pairs = <<>>
  /\ buffered_pairs_index = 0
  /\ tag_name_stack = <<"">>
  /\ header_inited = FALSE
  /\ body_inited = FALSE
  /\ buff = 0
  /\ buff_total_size = 0
  /\ xml = [open |-> <<>>, root_closed |-> FALSE, n_tu |-> 0]
  /\ event = [action |-> "none", tag |-> ""]
  /\ opened = {}
  /\ returned = <<>>
  /\ tmx_pc = "idle"
  /\ tmx_err = [type |-> "NoError", line |-> 0, message |-> ""]
  /\ tuv_element = [lang |-> <<"None">>, children |-> <<>>]
  /\ tuv_result = <<>>
  /\ tu_codes = <<<<"e", "n">>, <<"z", "h">>>>
  /\ tu_element = <<>>
  /\ tu_result = <<>>
  /\ tsv_input = <<>>
  /\ tsv_stream = <<>>
  /\ tsv_line_index = 0
  /\ tsv_next_read_line_index = 0
  /\ tsv_returned = <<>>
  /\ tsv_pc = "idle"
  /\ tsv_err = [type |-> "NoError", line |-> 0, message |-> ""]
  /\ cmd_call = [cmd |-> "none", inputs |-> <<>>, outputs |-> <<>>]
  /\ cmd_pc = "idle"
  /\ cmd_file = 0
  /\ cmd_left = 0
  /\ io_log = <<>>
  /\ cmd_exports = <<>>
  /\ cmd_total = 0
  /\ cmd_draws = 0
  /\ cmd_counts = <<0, 0, 0>>
  /\ cmd_err = "NoError"
  /\ rt_pairs = <<>>
  /\ rt_cur = <<>>
  /\ rt_file = [codec |-> "none", content |-> <<>>]
  /\ rt_trail = <<>>
  /\ rt_phase = "idle"

ApplyCount ==
  /\ count_result = <<>>
  /\ count_result' = <<autosplit_example_count(total_example_count)>>
  /\ UNCHANGED <<total_example_count, splitVars, tmxVars, extraVars>>

CountNext == ApplyCount

SpecCount == CountInit /\ [][CountNext]_vars

----------------------------------------------------------------------------
(* _parse_tuv_element applied to one tuv element *)

\* the tags of the children of a tuv: seg, and one tag the parser does not
\* recognize
ChildTags == {"seg", "prop"}

\* the texts of the children: 'A', 'B', 'PPP' and ' A '
ChildTexts == {<<"A">>, <<"B">>, <<"P", "P", "P">>, <<" ", "A", " ">>}

ChildNodes == [tag : ChildTags, text : ChildTexts]

\* the tuv elements: up to MaxChildren children, each holding one text
TuvElements ==
  [lang : {LangZh},
   children : UNION {[1..n -> ChildNodes] : n \in 0..MaxChildren}]

\* tuv_element.itertext(): the text of every descendant, in document order
itertext(children) == [k \in 1..Len(children) |-> children[k].text]

TuvInit ==
  /\ total_example_count = 0
  /\ count_result = <<>>
  /\ total_size = 0
  /\ input_paths = <<>>
  /\ example_counts = [u \in MLUseSet |-> 0]
  /\ exporters = [u \in MLUseSet |-> NewExporter]
  /\ file_idx = 1
  /\ pairs_read = 0
  /\ split_pc = "new"
  /\ split_err = NoError
  /\ src_lang = <<"e", "n">>
  /\ dst_lang = <<"z", "h">>
  /\ skip_invalid = FALSE
  /\ stream = [lines |-> 0, eof |-> FALSE]
  /\ line_index = 0
  /\ next_read_line_index = 0
  /\ skipped_phrases = <<>>
  /\ buffered_parsed_pairs = <<>>
  /\ buffered_pairs_index = 0
  /\ tag_name_stack = <<"">>
  /\ header_inited = FALSE
  /\ body_inited = FALSE
  /\ buff = 0
  /\ buff_total_size = 0
  /\ xml = [open |-> <<>>, root_closed |-> FALSE, n_tu |-> 0]
  /\ event = [action |-> "none", tag |-> ""]
  /\ opened = {}
  /\ returned = <<>>
  /\ tmx_pc = "idle"
  /\ tmx_err = [type |-> "NoError", line |-> 0, message |-> ""]
  /\ tuv_element \in TuvElements
  /\ tuv_result = <<>>
  /\ tu_codes = <<<<"e", "n">>, <<"z", "h">>>>
  /\ tu_element = <<>>
  /\ tu_result = <<>>
  /\ tsv_input = <<>>
  /\ tsv_stream = <<>>
  /\ tsv_line_index = 0
  /\ tsv_next_read_line_index = 0
  /\ tsv_returned = <<>>
  /\ tsv_pc = "idle"
  /\ tsv_err = [type |-> "NoError", line |-> 0, message |-> ""]
  /\ cmd_call = [cmd |-> "none", inputs |-> <<>>, outputs |-> <<>>]
  /\ cmd_pc = "idle"
  /\ cmd_file = 0
  /\ cmd_left = 0
  /\ io_log = <<>>
  /\ cmd_exports = <<>>
  /\ cmd_total = 0
  /\ cmd_draws = 0
  /\ cmd_counts = <<0, 0, 0>>
  /\ cmd_err = "NoError"
  /\ rt_pairs = <<>>
  /\ rt_cur = <<>>
  /\ rt_file = [codec |-> "none", content |-> <<>>]
  /\ rt_trail = <<>>
  /\ rt_phase = "idle"

\* the call _parse_tuv_element(tuv_element)
ParseTuv ==
  /\ tuv_result = <<>>
  /\ tuv_result' = <<parse_tuv_element([lang |-> tuv_element.lang,
                                        texts |-> itertext(tuv_element.children)])>>
  /\ UNCHANGED <<countVars, splitVars, tmxVars, tuVars, tsvVars, cmdVars, rtVars, tuv_element>>

TuvNext == ParseTuv

SpecTuv == TuvInit /\ [][TuvNext]_vars

----------------------------------------------------------------------------
(* _parse_tu_element applied to one tu element *)

\* the (src_lang_code, dst_lang_code) of the parser: two languages either way
\* round, and two codes of one language
TuCodes == {<<LangEnGB, LangZh>>, <<LangZh, LangEnGB>>, <<LangEnGB, LangEnUS>>}

\* the tuv children of a tu: xml:lang absent or a code, and no text, 'A' or 'B'
TuTuvs ==
  [lang : {None, LangEn, LangEnUS, LangZh, LangJa},
   texts : {<<>>, <<<<"A">>>>, <<<<"B">>>>}]

TuElements == UNION {[1..n -> TuTuvs] : n \in 0..MaxTuChildren}

TuInit ==
  /\ total_example_count = 0
  /\ count_result = <<>>
  /\ total_size = 0
  /\ input_paths = <<>>
  /\ example_counts = [u \in MLUseSet |-> 0]
  /\ exporters = [u \in MLUseSet |-> NewExporter]
  /\ file_idx = 1
  /\ pairs_read = 0
  /\ split_pc = "new"
  /\ split_err = NoError
  /\ src_lang = <<"e", "n">>
  /\ dst_lang = <<"z", "h">>
  /\ skip_invalid = FALSE
  /\ stream = [lines |-> 0, eof |-> FALSE]
  /\ line_index = 0
  /\ next_read_line_index = 0
  /\ skipped_phrases = <<>>
  /\ buffered_parsed_pairs = <<>>
  /\ buffered_pairs_index = 0
  /\ tag_name_stack = <<"">>
  /\ header_inited = FALSE
  /\ body_inited = FALSE
  /\ buff = 0
  /\ buff_total_size = 0
  /\ xml = [open |-> <<>>, root_closed |-> FALSE, n_tu |-> 0]
  /\ event = [action |-> "none", tag |-> ""]
  /\ opened = {}
  /\ returned = <<>>
  /\ tmx_pc = "idle"
  /\ tmx_err = [type |-> "NoError", line |-> 0, message |-> ""]
  /\ tuv_element = [lang |-> <<"None">>, children |-> <<>>]
  /\ tuv_result = <<>>
  /\ tu_codes \in TuCodes
  /\ tu_element \in TuElements
  /\ tu_result = <<>>
  /\ tsv_input = <<>>
  /\ tsv_stream = <<>>
  /\ tsv_line_index = 0
  /\ tsv_next_read_line_index = 0
  /\ tsv_returned = <<>>
  /\ tsv_pc = "idle"
  /\ tsv_err = [type |-> "NoError", line |-> 0, message |-> ""]
  /\ cmd_call = [cmd |-> "none", inputs |-> <<>>, outputs |-> <<>>]
  /\ cmd_pc = "idle"
  /\ cmd_file = 0
  /\ cmd_left = 0
  /\ io_log = <<>>
  /\ cmd_exports = <<>>
  /\ cmd_total = 0
  /\ cmd_draws = 0
  /\ cmd_counts = <<0, 0, 0>>
  /\ cmd_err = "NoError"
  /\ rt_pairs = <<>>
  /\ rt_cur = <<>>
  /\ rt_file = [codec |-> "none", content |-> <<>>]
  /\ rt_trail = <<>>
  /\ rt_phase = "idle"

\* the call _parse_tu_element(tu_element) on a parser constructed with
\* tu_codes (lines 294-295)
ParseTu ==
  /\ tu_result = <<>>
  /\ tu_result' = <<parse_tu_element(tu_element, parse_locale(tu_codes[1]),
                                     parse_locale(tu_codes[2]))>>
  /\ UNCHANGED <<countVars, splitVars, tmxVars, tuvVars, tsvVars, cmdVars, rtVars, tu_codes, tu_element>>

TuNext == ParseTu

SpecTu == TuInit /\ [][TuNext]_vars

----------------------------------------------------------------------------
(* parser_util.py: TsvParser, iterated to its end on one stream *)

\* the size handed to stream.readline() (self._SENTENCE_BUFFER_SIZE, line
\* 134).  readline() and the check of line 141 depend on the size only
\* through comparisons with the length of what was read, so the streams of
\* the model are a few characters long and the size is scaled with them.
TsvBufferSize == 5
\* the longest stream of the model, in characters
MaxStreamLen == 7

Tab == "\t"
Newline == "\n"
CarriageReturn == "\r"

\* the characters of the streams of the model
TsvChars == {"a", Tab, Newline}

TsvStreams == UNION {[1..n -> TsvChars] : n \in 0..MaxStreamLen}

MsgLineLength == "Length of the line exceeds the buffer size."
MsgTwoPhrases == "Each line can only contains 2 phrases."

Least(S) == CHOOSE k \in S : \A j \in S : k <= j

\* stream.readline(size): the characters up to and including the first
\* newline, at most size of them
ReadLineOf(content, size) ==
  LET limit == IF Len(content) < size THEN Len(content) ELSE size
      ends == {k \in 1..limit : content[k] = Newline}
  IN  SubSeq(content, 1, IF ends = {} THEN limit ELSE Least(ends))

EndsWith(str, c) == str # <<>> /\ str[Len(str)] = c

\* str.rstrip(c) for a single character c
RECURSIVE RStripChar(_, _)
RStripChar(str, c) ==
  IF EndsWith(str, c) THEN RStripChar(SubSeq(str, 1, Len(str) - 1), c)
  ELSE str

\* line.rstrip('\n').rstrip('\r').rstrip('\n') (lines 143-144)
RStripLine(line) ==
  RStripChar(RStripChar(RStripChar(line, Newline), CarriageReturn), Newline)

\* str.split(sep) for a single character sep
RECURSIVE SplitOn(_, _)
SplitOn(str, sep) ==
  LET seps == {k \in 1..Len(str) : str[k] = sep}
  IN  IF seps = {} THEN <<str>>
      ELSE <<SubSeq(str, 1, Least(seps) - 1)>>
           \o SplitOn(SubSeq(str, Least(seps) + 1, Len(str)), sep)

\* what readline(self._tsv_stream, check_sentence_buffer=True) reads
TsvLine == ReadLineOf(tsv_stream, TsvBufferSize)

\* line 137 (readline() never returns a line that ends with '\n\r')
TsvLineEnded == EndsWith(TsvLine, Newline)

\* line 141
TsvLineTooLong == TsvLineEnded /\ Len(TsvLine) = TsvBufferSize

\* line 211, on the line readline() returns
TsvFields == SplitOn(RStripLine(TsvLine), Tab)

\* what readline() does to the parser before it returns or raises
TsvRead ==
  /\ tsv_line_index' = tsv_next_read_line_index
  /\ tsv_next_read_line_index' =
       IF TsvLineEnded THEN tsv_next_read_line_index + 1
       ELSE tsv_next_read_line_index
  /\ tsv_stream' = SubSeq(tsv_stream, Len(TsvLine) + 1, Len(tsv_stream))

\* an error that cites self._line_index instead of current_line_number
TsvErrorZeroBased(message) ==
  [type |-> "InvalidFileFormatError", line |-> tsv_line_index',
   message |-> message]

\* invalid_format_error(message) (lines 156-159)
TsvError(message) ==
  [type |-> "InvalidFileFormatError", line |-> tsv_line_index' + 1,
   message |-> message]

tsvOtherVars == <<countVars, splitVars, tmxVars, tuvVars, tuVars, cmdVars, rtVars>>

TsvInit ==
  /\ total_example_count = 0
  /\ count_result = <<>>
  /\ total_size = 0
  /\ input_paths = <<>>
  /\ example_counts = [u \in MLUseSet |-> 0]
  /\ exporters = [u \in MLUseSet |-> NewExporter]
  /\ file_idx = 1
  /\ pairs_read = 0
  /\ split_pc = "new"
  /\ split_err = NoError
  /\ src_lang = <<"e", "n">>
  /\ dst_lang = <<"z", "h">>
  /\ skip_invalid = FALSE
  /\ stream = [lines |-> 0, eof |-> FALSE]
  /\ line_index = 0
  /\ next_read_line_index = 0
  /\ skipped_phrases = <<>>
  /\ buffered_parsed_pairs = <<>>
  /\ buffered_pairs_index = 0
  /\ tag_name_stack = <<"">>
  /\ header_inited = FALSE
  /\ body_inited = FALSE
  /\ buff = 0
  /\ buff_total_size = 0
  /\ xml = [open |-> <<>>, root_closed |-> FALSE, n_tu |-> 0]
  /\ event = [action |-> "none", tag |-> ""]
  /\ opened = {}
  /\ returned = <<>>
  /\ tmx_pc = "idle"
  /\ tmx_err = [type |-> "NoError", line |-> 0, message |-> ""]
  /\ tuv_element = [lang |-> <<"None">>, children |-> <<>>]
  /\ tuv_result = <<>>
  /\ tu_codes = <<<<"e", "n">>, <<"z", "h">>>>
  /\ tu_element = <<>>
  /\ tu_result = <<>>
  /\ tsv_input \in TsvStreams
  /\ tsv_stream = tsv_input
  /\ tsv_line_index = 0
  /\ tsv_next_read_line_index = 0
  /\ tsv_returned = <<>>
  /\ tsv_pc = "idle"
  /\ tsv_err = [type |-> "NoError", line |-> 0, message |-> ""]
  /\ cmd_call = [cmd |-> "none", inputs |-> <<>>, outputs |-> <<>>]
  /\ cmd_pc = "idle"
  /\ cmd_file = 0
  /\ cmd_left = 0
  /\ io_log = <<>>
  /\ cmd_exports = <<>>
  /\ cmd_total = 0
  /\ cmd_draws = 0
  /\ cmd_counts = <<0, 0, 0>>
  /\ cmd_err = "NoError"
  /\ rt_pairs = <<>>
  /\ rt_cur = <<>>
  /\ rt_file = [codec |-> "none", content |-> <<>>]
  /\ rt_trail = <<>>
  /\ rt_phase = "idle"

\* next(): the line has two phrases
TsvPair ==
  /\ tsv_pc = "idle"
  /\ TsvLine # <<>>
  /\ ~TsvLineTooLong
  /\ Len(TsvFields) = 2
  /\ TsvRead
  /\ tsv_returned' = Append(tsv_returned, <<TsvFields[1], TsvFields[2]>>)
  /\ UNCHANGED <<tsvOtherVars, tsv_input, tsv_pc, tsv_err>>

\* next(): readline() raises at line 142
TsvLengthFails ==
  /\ tsv_pc = "idle"
  /\ TsvLine # <<>>
  /\ TsvLineTooLong
  /\ TsvRead
  /\ tsv_pc' = "failed"
  /\ tsv_err' = TsvError(MsgLineLength)
  /\ UNCHANGED <<tsvOtherVars, tsv_input, tsv_returned>>

\* next(): next_parallel_phrase_pair() raises at line 213
TsvFieldsFail ==
  /\ tsv_pc = "idle"
  /\ TsvLine # <<>>
  /\ ~TsvLineTooLong
  /\ Len(TsvFields) # 2
  /\ TsvRead
  /\ tsv_pc' = "failed"
  /\ tsv_err' = TsvError(MsgTwoPhrases)
  /\ UNCHANGED <<tsvOtherVars, tsv_input, tsv_returned>>

\* next(): readline() raises ParseFinished (line 136), next() turns it into
\* StopIteration (lines 153-154)
TsvFinished ==
  /\ tsv_pc = "idle"
  /\ TsvLine = <<>>
  /\ tsv_line_index' = tsv_next_read_line_index
  /\ tsv_pc' = "finished"
  /\ UNCHANGED <<tsvOtherVars, tsv_input, tsv_stream,
                 tsv_next_read_line_index, tsv_returned, tsv_err>>

TsvNext ==
  \/ TsvPair
  \/ TsvLengthFails
  \/ TsvFieldsFail
  \/ TsvFinished

SpecTsv == TsvInit /\ [][TsvNext]_vars

----------------------------------------------------------------------------
(* parser_util.py and autosplit.py: the functions behind the commands, with
   the files they open.  An input file holds some pairs, after which its
   parser ends normally or raises InvalidFileFormatError. *)

\* the most input paths of a call
MaxInputs == 2
\* the most pairs of an input file
MaxRecords == 1

\* os.path.splitext(path)[1][1:]; "txt" stands for every extension that is
\* neither 'tsv' nor 'tmx'
Exts == {"tsv", "tmx", "txt"}

\* _get_file_type returns for these and raises for the others (line 523)
SupportedExts == {"tsv", "tmx"}

NotImplementedError == "NotImplementedError"

\* an input file: the extension of its path, the pairs its parser yields and
\* how the iteration over its parser ends (a file with an unsupported
\* extension is never parsed)
CmdFiles ==
  [ext : SupportedExts, pairs : 0..MaxRecords, ending : Endings]
    \cup [ext : Exts \ SupportedExts, pairs : {0}, ending : {StopIteration}]

CmdInputs == UNION {[1..n -> CmdFiles] : n \in 0..MaxInputs}

\* iterate_parallel_phrases without exporter (command_count and
\* command_validate), convert_input_files, and AutoSplitUtil.autosplit
RECURSIVE CmdPairs(_)
CmdPairs(files) ==
  IF files = <<>> THEN 0 ELSE Head(files).pairs + CmdPairs(Tail(files))

\* the total_size handed to AutoSplitUtil (line 57) is the number of pairs
\* the inputs hold when the module-level autosplit has counted them (lines
\* 139-142), and any number when another caller hands it in
CmdCalls ==
  [cmd : {"count"}, inputs : CmdInputs, outputs : {<<>>}, total_size : {0}]
    \cup [cmd : {"convert"}, inputs : CmdInputs, outputs : [1..1 -> Exts],
          total_size : {0}]
    \cup [cmd : {"autosplit"}, inputs : CmdInputs,
          outputs : [1..Len(ML_USES) -> Exts], total_size : 0..MaxTotalSize]

\* the first output path _get_file_type refuses, or 0
FirstUnsupported(outputs) ==
  LET bad == {j \in 1..Len(outputs) : outputs[j] \notin SupportedExts}
  IN  IF bad = {} THEN 0 ELSE Least(bad)

\* a call made on an exporter: initialize(), finalize(), or
\* feed_parallel_phrase_pair on the pair that the parsers yielded as the
\* pair-th one of the call
Call(name) == [call |-> name, pair |-> 0]

\* a feed that hands over the pair before the current one again
FeedCallPrevious(n) == [call |-> "feed", pair |-> IF n > 1 THEN n - 1 ELSE n]

FeedCall(n) == [call |-> "feed", pair |-> n]

\* exporters that an exception leaves as they are
ExitExportersNone(exports) == exports

\* the exporter of convert_input_files is a context manager: __exit__ calls
\* finalize() also when an exception leaves the block (lines 182-183)
ExitExporters(exports) ==
  IF cmd_call.cmd = "convert"
  THEN [j \in 1..Len(exports) |-> Append(exports[j], Call("finalize"))]
  ELSE exports

\* what an exporter has written to its stream after the calls made on it:
\* TmxExporter writes _TMX_INIT_TMPL, one _TMX_PAIR_TMPL per pair and the
\* closing tags; TsvExporter writes one line per pair
Written(ext, calls) ==
  IF ext = "tmx" THEN calls
  ELSE SelectSeq(calls, LAMBDA c : c.call = "feed")

cmdOtherVars == <<countVars, splitVars, tmxVars, tuvVars, tuVars, tsvVars, rtVars>>

\* a call; total_size of the AutoSplitUtil is the number of pairs of the
\* inputs, as autosplit() computes it (autosplit.py lines 138-144)
CmdInit ==
  /\ total_example_count = 0
  /\ count_result = <<>>
  /\ total_size = 0
  /\ input_paths = <<>>
  /\ example_counts = [u \in MLUseSet |-> 0]
  /\ exporters = [u \in MLUseSet |-> NewExporter]
  /\ file_idx = 1
  /\ pairs_read = 0
  /\ split_pc = "new"
  /\ split_err = NoError
  /\ src_lang = <<"e", "n">>
  /\ dst_lang = <<"z", "h">>
  /\ skip_invalid = FALSE
  /\ stream = [lines |-> 0, eof |-> FALSE]
  /\ line_index = 0
  /\ next_read_line_index = 0
  /\ skipped_phrases = <<>>
  /\ buffered_parsed_pairs = <<>>
  /\ buffered_pairs_index = 0
  /\ tag_name_stack = <<"">>
  /\ header_inited = FALSE
  /\ body_inited = FALSE
  /\ buff = 0
  /\ buff_total_size = 0
  /\ xml = [open |-> <<>>, root_closed |-> FALSE, n_tu |-> 0]
  /\ event = [action |-> "none", tag |-> ""]
  /\ opened = {}
  /\ returned = <<>>
  /\ tmx_pc = "idle"
  /\ tmx_err = [type |-> "NoError", line |-> 0, message |-> ""]
  /\ tuv_element = [lang |-> <<"None">>, children |-> <<>>]
  /\ tuv_result = <<>>
  /\ tu_codes = <<<<"e", "n">>, <<"z", "h">>>>
  /\ tu_element = <<>>
  /\ tu_result = <<>>
  /\ tsv_input = <<>>
  /\ tsv_stream = <<>>
  /\ tsv_line_index = 0
  /\ tsv_next_read_line_index = 0
  /\ tsv_returned = <<>>
  /\ tsv_pc = "idle"
  /\ tsv_err = [type |-> "NoError", line |-> 0, message |-> ""]
  /\ cmd_call \in CmdCalls
  /\ cmd_pc = IF cmd_call.cmd = "count" THEN "iterating" ELSE "start"
  /\ cmd_file = 1
  /\ cmd_left = 0
  /\ io_log = <<>>
  /\ cmd_exports = <<>>
  /\ cmd_total = 0
  /\ cmd_draws = 0
  /\ cmd_counts = autosplit_example_count(cmd_call.total_size)
  /\ cmd_err = NoError
  /\ rt_pairs = <<>>
  /\ rt_cur = <<>>
  /\ rt_file = [codec |-> "none", content |-> <<>>]
  /\ rt_trail = <<>>
  /\ rt_phase = "idle"

\* open(output_file_path, 'w') (parser_util.py line 554), or the three
\* open(..., 'w') of autosplit.py lines 103-105: the files are created or
\* truncated
CmdOpenOutputs ==
  /\ cmd_pc = "start"
  /\ io_log' = io_log \o [j \in 1..Len(cmd_call.outputs) |-> <<"w", j>>]
  /\ cmd_pc' = "outputs_open"
  /\ UNCHANGED <<cmdOtherVars, cmd_call, cmd_file, cmd_left, cmd_exports,
                 cmd_total, cmd_draws, cmd_counts, cmd_err>>

\* create_exporter succeeds for every output path and each exporter is
\* initialized (parser_util.py lines 555-558 with __enter__, autosplit.py
\* lines 106-115)
CmdCreateExporters ==
  /\ cmd_pc = "outputs_open"
  /\ FirstUnsupported(cmd_call.outputs) = 0
  /\ cmd_exports' = [j \in 1..Len(cmd_call.outputs) |-> <<Call("initialize")>>]
  /\ cmd_pc' = "iterating"
  /\ UNCHANGED <<cmdOtherVars, cmd_call, cmd_file, cmd_left, io_log,
                 cmd_total, cmd_draws, cmd_counts, cmd_err>>

\* _get_file_type raises NotImplementedError for an output path (line 524,
\* called from create_exporter, line 533)
CmdUnsupportedOutput ==
  /\ cmd_pc = "outputs_open"
  /\ FirstUnsupported(cmd_call.outputs) # 0
  /\ cmd_pc' = "failed"
  /\ cmd_err' = NotImplementedError
  /\ UNCHANGED <<cmdOtherVars, cmd_call, cmd_file, cmd_left, io_log,
                 cmd_exports, cmd_total, cmd_draws, cmd_counts>>

\* open(input_file_path) (parser_util.py line 539, autosplit.py line 117)
CmdOpenInput ==
  /\ cmd_pc = "iterating"
  /\ cmd_file <= Len(cmd_call.inputs)
  /\ io_log' = Append(io_log, <<"r", cmd_file>>)
  /\ cmd_pc' = "input_open"
  /\ UNCHANGED <<cmdOtherVars, cmd_call, cmd_file, cmd_left, cmd_exports,
                 cmd_total, cmd_draws, cmd_counts, cmd_err>>

\* a parser that yields one pair more than its file holds
CmdCreateParserExtra ==
  /\ cmd_pc = "input_open"
  /\ cmd_call.inputs[cmd_file].ext \in SupportedExts
  /\ cmd_left' = cmd_call.inputs[cmd_file].pairs + 1
  /\ cmd_pc' = "in_file"
  /\ UNCHANGED <<cmdOtherVars, cmd_call, cmd_file, io_log, cmd_exports,
                 cmd_total, cmd_draws, cmd_counts, cmd_err>>

\* create_parser succeeds (parser_util.py line 540, autosplit.py line 118)
CmdCreateParser ==
  /\ cmd_pc = "input_open"
  /\ cmd_call.inputs[cmd_file].ext \in SupportedExts
  /\ cmd_left' = cmd_call.inputs[cmd_file].pairs
  /\ cmd_pc' = "in_file"
  /\ UNCHANGED <<cmdOtherVars, cmd_call, cmd_file, io_log, cmd_exports,
                 cmd_total, cmd_draws, cmd_counts, cmd_err>>

\* _get_file_type raises NotImplementedError for an input path (line 524,
\* called from create_parser, line 529)
CmdUnsupportedInput ==
  /\ cmd_pc = "input_open"
  /\ cmd_call.inputs[cmd_file].ext \notin SupportedExts
  /\ cmd_exports' = ExitExporters(cmd_exports)
  /\ cmd_pc' = "failed"
  /\ cmd_err' = NotImplementedError
  /\ UNCHANGED <<cmdOtherVars, cmd_call, cmd_file, cmd_left, io_log,
                 cmd_total, cmd_draws, cmd_counts>>

\* one iteration over the parser in iterate_parallel_phrases (lines 544-547)
CmdCountPair ==
  /\ cmd_pc = "in_file"
  /\ cmd_call.cmd \in {"count", "convert"}
  /\ cmd_left > 0
  /\ cmd_left' = cmd_left - 1
  /\ cmd_total' = cmd_total + 1
  /\ cmd_exports' = [j \in 1..Len(cmd_exports) |->
                       Append(cmd_exports[j], FeedCall(cmd_total + 1))]
  /\ UNCHANGED <<cmdOtherVars, cmd_call, cmd_pc, cmd_file, io_log,
                 cmd_draws, cmd_counts, cmd_err>>

\* one iteration over the parser in AutoSplitUtil.autosplit (lines 123-127)
\* while quota is left: the draw of line 75 succeeds
CmdSplitPair ==
  /\ cmd_pc = "in_file"
  /\ cmd_call.cmd = "autosplit"
  /\ cmd_left > 0
  /\ SumCounts(cmd_counts) > 0
  /\ cmd_left' = cmd_left - 1
  /\ cmd_draws' = cmd_draws + 1
  /\ \E example_index \in 0..(SumCounts(cmd_counts) - 1) :
       LET ml_use_value == assign_ml_use(cmd_counts, example_index)
       IN  /\ cmd_exports' = [cmd_exports EXCEPT ![ml_use_value] =
                                Append(@, FeedCall(cmd_draws + 1))]
           /\ cmd_counts' = select_ml_use(cmd_counts, ml_use_value)
  /\ UNCHANGED <<cmdOtherVars, cmd_call, cmd_pc, cmd_file, io_log,
                 cmd_total, cmd_err>>

\* the parser yields a pair when no quota is left: random.randint(0, -1)
\* raises ValueError (line 75) before the pair is fed, and the exception
\* leaves AutoSplitUtil.autosplit
CmdDrawFails ==
  /\ cmd_pc = "in_file"
  /\ cmd_call.cmd = "autosplit"
  /\ cmd_left > 0
  /\ SumCounts(cmd_counts) = 0
  /\ cmd_left' = cmd_left - 1
  /\ cmd_draws' = cmd_draws + 1
  /\ cmd_exports' = ExitExporters(cmd_exports)
  /\ cmd_pc' = "failed"
  /\ cmd_err' = ValueError
  /\ UNCHANGED <<cmdOtherVars, cmd_call, cmd_file, io_log, cmd_total,
                 cmd_counts>>

\* the parser raises InvalidFileFormatError after its pairs: the exception
\* leaves the called function
CmdParserFails ==
  /\ cmd_pc = "in_file"
  /\ cmd_left = 0
  /\ cmd_call.inputs[cmd_file].ending = InvalidFileFormatError
  /\ cmd_exports' = ExitExporters(cmd_exports)
  /\ cmd_pc' = "failed"
  /\ cmd_err' = InvalidFileFormatError
  /\ UNCHANGED <<cmdOtherVars, cmd_call, cmd_file, cmd_left, io_log,
                 cmd_total, cmd_draws, cmd_counts>>

\* the parser is exhausted and the loop takes the next input path
CmdFileEnds ==
  /\ cmd_pc = "in_file"
  /\ cmd_left = 0
  /\ cmd_call.inputs[cmd_file].ending = StopIteration
  /\ cmd_file' = cmd_file + 1
  /\ cmd_pc' = "iterating"
  /\ UNCHANGED <<cmdOtherVars, cmd_call, cmd_left, io_log, cmd_exports,
                 cmd_total, cmd_draws, cmd_counts, cmd_err>>

\* after the last input path: iterate_parallel_phrases returns total_counts
\* (line 548) and the exporters are finalized (__exit__ in
\* convert_input_files, autosplit.py lines 128-129)
CmdFinish ==
  /\ cmd_pc = "iterating"
  /\ cmd_file > Len(cmd_call.inputs)
  /\ cmd_exports' = [j \in 1..Len(cmd_exports) |->
                       Append(cmd_exports[j], Call("finalize"))]
  /\ cmd_pc' = "done"
  /\ UNCHANGED <<cmdOtherVars, cmd_call, cmd_file, cmd_left, io_log,
                 cmd_total, cmd_draws, cmd_counts, cmd_err>>

CmdNext ==
  \/ CmdOpenOutputs
  \/ CmdCreateExporters
  \/ CmdUnsupportedOutput
  \/ CmdOpenInput
  \/ CmdCreateParser
  \/ CmdUnsupportedInput
  \/ CmdCountPair
  \/ CmdSplitPair
  \/ CmdDrawFails
  \/ CmdParserFails
  \/ CmdFileEnds
  \/ CmdFinish

SpecCommands == CmdInit /\ [][CmdNext]_vars

----------------------------------------------------------------------------
(* parser_util.py: the exporters and the parsers as functions between phrase
   pairs and file contents.  A TSV content is its characters.  A TMX content
   written by TmxExporter is the templates filled in: it is kept as what
   fills them, the header's srclang and per tu the two (xml:lang, seg text)
   written, texts kept as written (no escaping). *)

\* the most pairs of a sequence to convert
MaxRtPairs == 2
\* the most files a chain of conversions writes
MaxRtFiles == 4

\* the language codes of the exporters and parsers
RtCodes == <<LangEnGB, LangZh>>

\* the characters that cannot stand for themselves in XML character data
XmlSpecial == {"&", "<"}

\* source texts: empty, plain, with a leading blank, with a blank inside,
\* with a line break inside, with '&', with a tab
RtSrcTexts ==
  {<<>>, <<"a">>, <<" ", "a">>, <<"a", " ", "b">>, <<"a", "\n", "b">>,
   <<"a", "&">>, <<"a", "\t">>}

\* target texts: plain, empty
RtDstTexts == {<<"b">>, <<>>}

RtPairs == RtSrcTexts \X RtDstTexts

RtPairSeqs == UNION {[1..n -> RtPairs] : n \in 0..MaxRtPairs}

\* an exporter that separates the two texts with a blank
TsvFeedBlank(src, dst) == src \o <<" ">> \o dst \o <<"\n">>

\* TsvExporter.feed_parallel_phrase_pair
TsvFeed(src, dst) == src \o <<"\t">> \o dst \o <<"\n">>

\* what a TsvExporter has written after it was fed the pairs
RECURSIVE ExportTsv(_)
ExportTsv(pairs) ==
  IF pairs = <<>> THEN <<>>
  ELSE TsvFeed(Head(pairs)[1], Head(pairs)[2]) \o ExportTsv(Tail(pairs))

\* an exporter that fills the two texts into _TMX_PAIR_TMPL in the other order
TmxFeedSwapped(src, dst, codes) ==
  <<[lang |-> codes[1], seg |-> dst], [lang |-> codes[2], seg |-> src]>>

\* TmxExporter.feed_parallel_phrase_pair: _TMX_PAIR_TMPL filled in
TmxFeed(src, dst, codes) ==
  <<[lang |-> codes[1], seg |-> src], [lang |-> codes[2], seg |-> dst]>>

\* what a TmxExporter has written after initialize(), the pairs and
\* finalize()
ExportTmx(pairs, codes) ==
  [srclang |-> codes[1],
   tus |-> [k \in 1..Len(pairs) |-> TmxFeed(pairs[k][1], pairs[k][2], codes)]]

\* the iteration over a TsvParser on the content, to its end: the pairs
\* yielded and the exception that ended it (NoError for StopIteration)
RECURSIVE TsvParseAll(_, _, _)
TsvParseAll(content, size, pairs) ==
  LET line == ReadLineOf(content, size)
      fields == SplitOn(RStripLine(line), "\t")
  IN  IF line = <<>> THEN [pairs |-> pairs, err |-> NoError]
      ELSE IF EndsWith(line, "\n") /\ Len(line) = size
        THEN [pairs |-> pairs, err |-> InvalidFileFormatError]
      ELSE IF Len(fields) # 2
        THEN [pairs |-> pairs, err |-> InvalidFileFormatError]
      ELSE TsvParseAll(SubSeq(content, Len(line) + 1, Len(content)), size,
                       Append(pairs, <<fields[1], fields[2]>>))

ParseTsv(content) == TsvParseAll(content, SENTENCE_BUFFER_SIZE, <<>>)

\* lxml accepts the text as character data
WellFormedText(text) == \A k \in 1..Len(text) : text[k] \notin XmlSpecial

\* itertext() of <tuv><seg>text</seg></tuv>: an empty element has no text
SegTextsOf(seg) == IF seg = <<>> THEN <<>> ELSE <<seg>>

\* the iteration over a TmxParser on the tus of a written document, to its
\* end: feed() raises XMLSyntaxError at a tu whose text is not well-formed
\* (turned into InvalidFileFormatError, line 338), and a tu that lacks a text
\* is fatal (line 351)
RECURSIVE TmxParseTus(_, _, _)
TmxParseTus(tus, codes, pairs) ==
  IF tus = <<>> THEN [pairs |-> pairs, err |-> NoError]
  ELSE
    LET tu == Head(tus)
        parsed ==
          parse_tu_element(
            [j \in 1..Len(tu) |->
               [lang |-> tu[j].lang, texts |-> SegTextsOf(tu[j].seg)]],
            parse_locale(codes[1]), parse_locale(codes[2]))
    IN  IF \E j \in 1..Len(tu) : ~WellFormedText(tu[j].seg)
        THEN [pairs |-> pairs, err |-> InvalidFileFormatError]
        ELSE IF parsed.error_message # ""
        THEN [pairs |-> pairs, err |-> InvalidFileFormatError]
        ELSE TmxParseTus(Tail(tus), codes,
                         Append(pairs, <<parsed.src, parsed.dst>>))

ParseTmx(doc, codes) ==
  IF parse_header_element(doc.srclang, parse_locale(codes[1])) # ""
  THEN [pairs |-> <<>>, err |-> InvalidFileFormatError]
  ELSE TmxParseTus(doc.tus, codes, <<>>)

\* _EXPORTERS and _PARSERS
Export(codec, pairs) ==
  IF codec = "tsv" THEN ExportTsv(pairs) ELSE ExportTmx(pairs, RtCodes)

Parse(codec, content) ==
  IF codec = "tsv" THEN ParseTsv(content) ELSE ParseTmx(content, RtCodes)

rtOtherVars == <<countVars, splitVars, tmxVars, tuvVars, tuVars, tsvVars, cmdVars>>

RtInit ==
  /\ total_example_count = 0
  /\ count_result = <<>>
  /\ total_size = 0
  /\ input_paths = <<>>
  /\ example_counts = [u \in MLUseSet |-> 0]
  /\ exporters = [u \in MLUseSet |-> NewExporter]
  /\ file_idx = 1
  /\ pairs_read = 0
  /\ split_pc = "new"
  /\ split_err = NoError
  /\ src_lang = <<"e", "n">>
  /\ dst_lang = <<"z", "h">>
  /\ skip_invalid = FALSE
  /\ stream = [lines |-> 0, eof |-> FALSE]
  /\ line_index = 0
  /\ next_read_line_index = 0
  /\ skipped_phrases = <<>>
  /\ buffered_parsed_pairs = <<>>
  /\ buffered_pairs_index = 0
  /\ tag_name_stack = <<"">>
  /\ header_inited = FALSE
  /\ body_inited = FALSE
  /\ buff = 0
  /\ buff_total_size = 0
  /\ xml = [open |-> <<>>, root_closed |-> FALSE, n_tu |-> 0]
  /\ event = [action |-> "none", tag |-> ""]
  /\ opened = {}
  /\ returned = <<>>
  /\ tmx_pc = "idle"
  /\ tmx_err = [type |-> "NoError", line |-> 0, message |-> ""]
  /\ tuv_element = [lang |-> <<"None">>, children |-> <<>>]
  /\ tuv_result = <<>>
  /\ tu_codes = <<<<"e", "n">>, <<"z", "h">>>>
  /\ tu_element = <<>>
  /\ tu_result = <<>>
  /\ tsv_input = <<>>
  /\ tsv_stream = <<>>
  /\ tsv_line_index = 0
  /\ tsv_next_read_line_index = 0
  /\ tsv_returned = <<>>
  /\ tsv_pc = "idle"
  /\ tsv_err = [type |-> "NoError", line |-> 0, message |-> ""]
  /\ cmd_call = [cmd |-> "none", inputs |-> <<>>, outputs |-> <<>>]
  /\ cmd_pc = "idle"
  /\ cmd_file = 0
  /\ cmd_left = 0
  /\ io_log = <<>>
  /\ cmd_exports = <<>>
  /\ cmd_total = 0
  /\ cmd_draws = 0
  /\ cmd_counts = <<0, 0, 0>>
  /\ cmd_err = NoError
  /\ rt_pairs \in RtPairSeqs
  /\ rt_cur = rt_pairs
  /\ rt_file = [codec |-> "none", content |-> <<>>]
  /\ rt_trail = <<>>
  /\ rt_phase = "pairs"

\* an exporter of the codec is initialized, fed the pairs in hand and
\* finalized (convert_input_files, lines 554-562)
RtExport ==
  /\ rt_phase = "pairs"
  /\ Len(rt_trail) < MaxRtFiles
  /\ \E codec \in SupportedExts :
       /\ rt_file' = [codec |-> codec, content |-> Export(codec, rt_cur)]
       /\ rt_trail' = Append(rt_trail, rt_file')
  /\ rt_phase' = "file"
  /\ UNCHANGED <<rtOtherVars, rt_pairs, rt_cur>>

\* the parser of the file's codec is iterated to its end without an error
RtParse ==
  /\ rt_phase = "file"
  /\ Parse(rt_file.codec, rt_file.content).err = NoError
  /\ rt_cur' = Parse(rt_file.codec, rt_file.content).pairs
  /\ rt_phase' = "pairs"
  /\ UNCHANGED <<rtOtherVars, rt_pairs, rt_file, rt_trail>>

\* the parser of the file's codec raises InvalidFileFormatError
RtParseFails ==
  /\ rt_phase = "file"
  /\ Parse(rt_file.codec, rt_file.content).err # NoError
  /\ rt_cur' = Parse(rt_file.codec, rt_file.content).pairs
  /\ rt_phase' = "failed"
  /\ UNCHANGED <<rtOtherVars, rt_pairs, rt_file, rt_trail>>

RtNext ==
  \/ RtExport
  \/ RtParse
  \/ RtParseFails

SpecConvert == RtInit /\ [][RtNext]_vars

----------------------------------------------------------------------------
(* Claims about the splitter *)

SplitEnded == split_pc \in {"done", "failed"}

\* C1: when autosplit runs with total_size = N over inputs that yield exactly
\* N pairs, the numbers of pairs fed to the TRAIN, VALIDATION and TEST
\* exporters are the three counts of _autosplit_example_count(N) (80/10/10
\* for N = 100) and the three remaining quotas are 0 at the end, whatever the
\* draws were.
C1_ExactSplit ==
  (split_pc = "done" /\ TotalPairs(input_paths) = total_size) =>
    /\ \A u \in MLUseSet :
         /\ exporters[u].fed = autosplit_example_count(total_size)[u]
         /\ example_counts[u] = 0
    /\ total_size = TestTotalSize =>
         /\ exporters[TRAIN].fed = 80
         /\ exporters[VALIDATION].fed = 10
         /\ exporters[TEST].fed = 10

C1_Witness ==
  /\ split_pc = "done"
  /\ total_size = TestTotalSize
  /\ TotalPairs(input_paths) = TestTotalSize
  /\ exporters[TRAIN].fed = 80

\* C2: for every N >= 0, _autosplit_example_count(N) returns train = the
\* least integer not below 0.8 N, validation = the least integer not below
\* 0.9 N - train, test = N - train - validation; the three sum to N, none is
\* negative, and N = 1 gives (1, 0, 0).
C2_Rounding ==
  count_result # <<>> =>
    LET n == total_example_count
        train == count_result[1][TRAIN]
        validation == count_result[1][VALIDATION]
        test == count_result[1][TEST]
    IN  /\ 10 * train >= 8 * n /\ 10 * (train - 1) < 8 * n
        /\ 10 * validation >= 9 * n - 10 * train
        /\ 10 * (validation - 1) < 9 * n - 10 * train
        /\ test = n - train - validation
        /\ train + validation + test = n
        /\ train >= 0 /\ validation >= 0 /\ test >= 0
        /\ n = 1 => (train = 1 /\ validation = 0 /\ test = 0)

C2_Witness ==
  /\ count_result # <<>>
  /\ total_example_count = 1
  /\ count_result[1][TRAIN] = 1

\* C3 (as claimed): if the parsers end normally after a number of pairs
\* different from total_size, fewer or more, the run ends in an error that is
\* not InvalidFileFormatError and never completes normally.
C3_MismatchIsFatal ==
  (/\ SplitEnded
   /\ AllEndNormally(input_paths)
   /\ TotalPairs(input_paths) # total_size) =>
    (split_pc = "failed" /\ split_err \notin {NoError, InvalidFileFormatError})

\* C4 (as claimed): every exporter is initialized before the first pair is
\* fed to any exporter, and finalize has been called on all three exporters
\* on every exit of autosplit(), the normal one and the ones by an exception.
C4_InitializedAndFinalized ==
  /\ (\E u \in MLUseSet : exporters[u].fed > 0) =>
       \A u \in MLUseSet : exporters[u].initialized
  /\ SplitEnded => \A u \in MLUseSet : exporters[u].finalized

\* the quotas of the classes that precede c in _ML_USES, added up
QuotaBefore(counts, c) ==
  LET RECURSIVE Upto(_)
      Upto(k) == IF ML_USES[k] = c THEN 0
                 ELSE counts[ML_USES[k]] + Upto(k + 1)
  IN  Upto(1)

\* the index falls into the cumulative-quota interval of class c
InInterval(counts, c, i) ==
  QuotaBefore(counts, c) <= i /\ i < QuotaBefore(counts, c) + counts[c]

\* C21: in every quota state with R = the sum of the quotas > 0 and no
\* negative quota, every index random.randint can draw, 0 <= i < R, makes
\* _assign_ml_use return the one class, in the order TRAIN, VALIDATION, TEST,
\* whose cumulative-quota interval holds i: a class with quota left, never
\* UNASSIGNED, never the fallback; and no quota is ever negative.
C21_AssignInInterval ==
  /\ \A u \in MLUseSet : example_counts[u] >= 0
  /\ SumCounts(example_counts) > 0 =>
       \A i \in 0..(SumCounts(example_counts) - 1) :
         LET c == assign_ml_use(example_counts, i)
         IN  /\ c \in MLUseSet
             /\ c # UNASSIGNED
             /\ example_counts[c] > 0
             /\ InInterval(example_counts, c, i)
             /\ \A d \in MLUseSet : InInterval(example_counts, d, i) => d = c

\* pairs were assigned, and the three classes all have quota left
C21_Witness ==
  /\ split_pc = "iterating"
  /\ \E u \in MLUseSet : exporters[u].fed > 0
  /\ \A u \in MLUseSet : example_counts[u] > 0

\* the pairs assigned so far
FedSoFar(exps) == exps[TRAIN].fed + exps[VALIDATION].fed + exps[TEST].fed

\* C22: throughout a split run the remaining quotas add up to N minus the
\* pairs assigned so far, and every step either leaves the quotas alone or
\* takes exactly 1 from the quota of the class the pair was fed to and
\* leaves the other two unchanged
C22_QuotaAccounting ==
  [][/\ SumCounts(example_counts) = total_size - FedSoFar(exporters)
     /\ SumCounts(example_counts') = total_size' - FedSoFar(exporters')
     /\ \/ /\ example_counts' = example_counts
           /\ FedSoFar(exporters') = FedSoFar(exporters)
        \/ \E c \in MLUseSet :
             /\ example_counts'[c] = example_counts[c] - 1
             /\ exporters'[c].fed = exporters[c].fed + 1
             /\ \A d \in MLUseSet \ {c} :
                  /\ example_counts'[d] = example_counts[d]
                  /\ exporters'[d].fed = exporters[d].fed]_vars

\* pairs went to two classes and quota is left
C22_Witness ==
  /\ exporters[TRAIN].fed > 0
  /\ exporters[VALIDATION].fed > 0
  /\ SumCounts(example_counts) > 0

----------------------------------------------------------------------------
(* Claims about TmxParser, under SpecTmx *)

\* a step in which the loop body of _read_next handles one event: the element
\* is started or ended, or the body raises
EventStep ==
  /\ tmx_pc = "chunk"
  /\ \/ Len(xml'.open) # Len(xml.open)
     \/ tmx_pc' = "failed" /\ tmx_err'.message # MsgBuffer

StartOf(tag) == EventStep /\ event' = [action |-> "start", tag |-> tag]

EndOf(tag) == EventStep /\ event' = [action |-> "end", tag |-> tag]

\* the step raises InvalidFileFormatError with the message, citing the number
\* of the line being read
FailsWith(message) ==
  /\ tmx_pc' = "failed"
  /\ tmx_err' = [type |-> InvalidFileFormatError, line |-> line_index + 1,
                 message |-> message]

FailsInvalidFormat ==
  tmx_pc' = "failed" /\ tmx_err'.type = InvalidFileFormatError

\* the parent each recognized tag requires, as the claim lists them
RequiredParent ==
  [tmx |-> "", header |-> "tmx", body |-> "tmx", tu |-> "body",
   tuv |-> "tu", seg |-> "tuv"]

StartOfRecognized ==
  EventStep /\ event'.action = "start" /\ event'.tag \in DOMAIN RequiredParent

\* C5 as stated: on every start event of a recognized tag, if the required
\* parent is not the top of the tag stack then parsing fails with 'Invalid tag
\* structure' at the current line and the tag is not pushed; otherwise the tag
\* is pushed.
C5_PushedOtherwise ==
  [][StartOfRecognized =>
       IF Top(tag_name_stack) # RequiredParent[event'.tag]
       THEN FailsWith(MsgStructure) /\ tag_name_stack' = tag_name_stack
       ELSE tag_name_stack' = Append(tag_name_stack, event'.tag)]_vars

\* C5 amended: on every start event of a recognized tag, if the required
\* parent is not the top of the tag stack then parsing fails with 'Invalid tag
\* structure' at the current line and the tag is not pushed; otherwise the tag
\* is pushed and parsing goes on, except for a header after a header and a
\* body before any header, which fail with InvalidFormat and push nothing.
C5_ParentChecked ==
  [][StartOfRecognized =>
       IF Top(tag_name_stack) # RequiredParent[event'.tag]
       THEN FailsWith(MsgStructure) /\ tag_name_stack' = tag_name_stack
       ELSE IF \/ event'.tag = "header" /\ "header" \in opened
               \/ event'.tag = "body" /\ "header" \notin opened
       THEN FailsInvalidFormat /\ tag_name_stack' = tag_name_stack
       ELSE /\ tag_name_stack' = Append(tag_name_stack, event'.tag)
            /\ tmx_pc' = "chunk"]_vars

\* <tmx><tu> on the first line: the start of tu under tmx has failed at line 1
C5_Witness ==
  /\ tmx_pc = "failed"
  /\ tmx_err = [type |-> InvalidFileFormatError, line |-> 1,
                message |-> MsgStructure]
  /\ event = [action |-> "start", tag |-> "tu"]
  /\ tag_name_stack = <<"", "tmx">>
  /\ stream.lines = 1

\* C6: a second body started directly under tmx, after a first body was
\* started in the same document, makes parsing fail with 'Duplicate body tag'.
C6_DuplicateBodyFails ==
  [][(StartOf("body") /\ Top(tag_name_stack) = "tmx" /\ "body" \in opened)
       => FailsWith(MsgDupBody)]_vars

\* C7: a second header started directly under tmx, after a first header was
\* started, makes parsing fail with 'Duplicate header tag'.
C7_DuplicateHeaderFails ==
  [][(StartOf("header") /\ Top(tag_name_stack) = "tmx" /\ "header" \in opened)
       => /\ FailsWith(MsgDupHeader)
          /\ tag_name_stack' = tag_name_stack]_vars

C7_Witness ==
  /\ tmx_pc = "failed"
  /\ tmx_err.message = MsgDupHeader
  /\ event = [action |-> "start", tag |-> "header"]
  /\ "header" \in opened
  /\ tag_name_stack = <<"", "tmx">>

\* C8: a body started under tmx before any header was started fails with
\* InvalidFormat, and as long as no header has been started no phrase pair is
\* parsed or returned.
C8_HeaderBeforeBody ==
  [][/\ (StartOf("body") /\ Top(tag_name_stack) = "tmx"
           /\ "header" \notin opened) => FailsInvalidFormat
     /\ "header" \notin opened' =>
          returned' = <<>> /\ buffered_parsed_pairs' = <<>>]_vars

C8_Witness ==
  /\ tmx_pc = "failed"
  /\ tmx_err.message = MsgHeaderFirst
  /\ event = [action |-> "start", tag |-> "body"]
  /\ "header" \notin opened
  /\ returned = <<>>

\* what the claim about the header end promises once the locale differs
HeaderMismatchIsFatal ==
  /\ FailsInvalidFormat
  /\ skipped_phrases' = skipped_phrases
  /\ returned' = <<>>
  /\ buffered_parsed_pairs' = <<>>

LacksText(tu, locale) ==
  ~\E k \in 1..Len(tu.tuvs) :
      /\ tu.tuvs[k].lang # None
      /\ parse_locale(tu.tuvs[k].lang) = locale
      /\ \E t \in 1..Len(tu.tuvs[k].texts) :
           \E i \in 1..Len(tu.tuvs[k].texts[t]) :
             tu.tuvs[k].texts[t][i] # " "

ReasonOf(tu) ==
  IF LacksText(tu, src_lang) /\ LacksText(tu, dst_lang) THEN MsgNoBoth
  ELSE IF LacksText(tu, src_lang) THEN MsgNoSrc
  ELSE IF LacksText(tu, dst_lang) THEN MsgNoDst
  ELSE ""

\* C11: every tu is classified by this rule when it ends: neither text found
\* gives the 'source and target' reason, the source text missing and the
\* target text found the 'source' reason, the source text found and the target
\* text missing the 'target' reason, both found no error (a pair is parsed).
\* The reason is the message of the error with the tolerance switch off and
\* the reason of the skipped record with it on.  A tu whose tuv elements are
\* all in other languages gets the 'source and target' reason.
C11_Classification ==
  [][(EndOf("tu") /\ Len(skipped_phrases) < MAX_SKIPPED_PHRASES) =>
       LET tu == Top(xml.open)
           reason == ReasonOf(tu)
       IN  /\ IF reason = ""
              THEN /\ tmx_pc' = "chunk"
                   /\ Len(buffered_parsed_pairs') = Len(buffered_parsed_pairs) + 1
                   /\ skipped_phrases' = skipped_phrases
              ELSE IF skip_invalid
              THEN /\ tmx_pc' = "chunk"
                   /\ buffered_parsed_pairs' = buffered_parsed_pairs
                   /\ Len(skipped_phrases') = Len(skipped_phrases) + 1
                   /\ skipped_phrases'[Len(skipped_phrases')][4] = reason
              ELSE FailsWith(reason)
           /\ (/\ tu.tuvs # <<>>
               /\ \A k \in 1..Len(tu.tuvs) :
                    /\ tu.tuvs[k].lang # None
                    /\ parse_locale(tu.tuvs[k].lang) \notin {src_lang, dst_lang})
                => reason = MsgNoBoth]_vars

\* a tu with neither text was skipped with the 'source and target' reason,
\* and one before it was parsed into a pair
C11_Witness ==
  /\ event = [action |-> "end", tag |-> "tu"]
  /\ skip_invalid
  /\ Len(skipped_phrases) = 1
  /\ skipped_phrases[1][4] = MsgNoBoth
  /\ Len(buffered_parsed_pairs) = 1

\* C16: every call of next() ends with a pair, with the normal end of the
\* stream or with InvalidFileFormatError; in particular the end of the stream
\* inside an incomplete document (recognized tags still on the stack) is an
\* InvalidFileFormatError, neither a normal end nor an error of another type
C16_ThreeOutcomes ==
  /\ tmx_pc = "failed" => tmx_err.type = InvalidFileFormatError
  /\ (stream.eof /\ Len(tag_name_stack) > 1) => tmx_pc # "finished"

ButLast(stack) == SubSeq(stack, 1, Len(stack) - 1)

\* _verify_element on an end of each recognized tag, whatever the tag, with
\* the tag stack of the present state
EndVerifiedOnStack ==
  \A tag \in RecognizedTags :
    LET v == verify_element("end", tag, tag_name_stack, header_inited,
                            body_inited)
    IN  IF Top(tag_name_stack) # tag
        THEN v.message = MsgUnclosed /\ v.stack = tag_name_stack
        ELSE v.message = "" /\ v.stack = ButLast(tag_name_stack)

\* C24: on every end event of a recognized tag, if the tag differs from the
\* top of the tag stack then parsing fails with 'Unclosed tag' at the current
\* line and the stack is left as it is, and otherwise exactly the top entry is
\* popped; an event of an unrecognized tag never changes the stack.
C24_EndChecked ==
  /\ []EndVerifiedOnStack
  /\ [][EventStep =>
          IF event'.tag \notin RecognizedTags
          THEN tag_name_stack' = tag_name_stack
          ELSE event'.action = "end" =>
                 IF Top(tag_name_stack) # event'.tag
                 THEN FailsWith(MsgUnclosed)
                        /\ tag_name_stack' = tag_name_stack
                 ELSE tag_name_stack' = ButLast(tag_name_stack)]_vars

\* the end of a seg has popped it: tmx, body, tu and tuv are still open
C24_Witness ==
  /\ tmx_pc = "chunk"
  /\ event = [action |-> "end", tag |-> "seg"]
  /\ tag_name_stack = <<"", "tmx", "body", "tu", "tuv">>
  /\ Len(xml.open) = 4

\* the pairs parsed so far that next() has returned or still holds in its
\* buffer, in the order they were returned or will be
Produced ==
  returned \o SubSeq(buffered_parsed_pairs, buffered_pairs_index + 1,
                     Len(buffered_parsed_pairs))

\* the pair has a source and a target sentence, both made of the letter that
\* the text nodes of the n-th tu of the document hold
PairOfTu(pair, n) ==
  \A side \in 1..2 :
    /\ pair[side] # None
    /\ pair[side] # <<>>
    /\ \A i \in 1..Len(pair[side]) : pair[side][i] \in {LetterOfTu(n), " "}

\* the loop body handles the end of a tu that has both sentences
ValidTuEnds == EndOf("tu") /\ ReasonOf(Top(xml.open)) = ""

\* C26: a chunk is read only when every pair parsed so far has been returned
\* (the buffer is exhausted), so that reading stops with the first chunk that
\* gives a pair; the end of each valid tu adds its pair behind the pairs
\* parsed before, no other step adds, drops or reorders a pair, and next()
\* returns the pairs one at a time in that order: each pair of a valid tu is
\* returned once, in document order, also when one chunk holds several tu
\* elements; at the normal end of the stream every pair has been returned.
C26_PairsInDocumentOrder ==
  /\ [](tmx_pc = "finished" => returned = Produced)
  /\ [][/\ tmx_pc = "read" => returned = Produced
        /\ IF ValidTuEnds
           THEN /\ Len(Produced') = Len(Produced) + 1
                /\ SubSeq(Produced', 1, Len(Produced)) = Produced
                /\ PairOfTu(Produced'[Len(Produced')], xml.n_tu)
           ELSE Produced' = Produced
        /\ returned' # returned =>
             returned' = Append(returned, Produced[Len(returned) + 1])]_vars

\* one chunk held two valid tu elements, and two calls of next() have
\* returned their pairs, the first tu's first
C26_Witness ==
  /\ tmx_pc = "idle"
  /\ stream.lines = 1
  /\ returned = <<<<<<"b">>, <<"b">>>>, <<<<"c">>, <<"c">>>>>>
  /\ buffered_pairs_index = 2

\* the recognized tags among the open elements of the document, outermost
\* first
OpenRecognized ==
  LET tags == [k \in 1..Len(xml.open) |-> xml.open[k].tag]
  IN  SelectSeq(tags, LAMBDA t : t \in DOMAIN RequiredParent)

StackBelow(s, t) == Len(s) <= Len(t) /\ s = SubSeq(t, 1, Len(s))

HeaderChain == <<"", "tmx", "header">>
BodyChain == <<"", "tmx", "body", "tu", "tuv", "seg">>

\* C28: as long as the parser has not failed, the tag stack is the empty
\* bottom marker followed by exactly the recognized tags that are open, and it
\* is a prefix of ['', tmx, header] or of ['', tmx, body, tu, tuv, seg]; so
\* it is never deeper than 6 and never loses the bottom marker; and a pair is
\* parsed only by the end of a tu that leaves the stack at ['', tmx, body].
C28_StackShape ==
  /\ [](tmx_pc # "failed" =>
          /\ tag_name_stack = <<"">> \o OpenRecognized
          /\ StackBelow(tag_name_stack, HeaderChain)
               \/ StackBelow(tag_name_stack, BodyChain)
          /\ Len(tag_name_stack) <= 6
          /\ tag_name_stack # <<>>
          /\ tag_name_stack[1] = "")
  /\ [][Len(buffered_parsed_pairs') > Len(buffered_parsed_pairs) =>
          /\ EndOf("tu")
          /\ tag_name_stack = <<"", "tmx", "body", "tu">>
          /\ tag_name_stack' = <<"", "tmx", "body">>]_vars

\* a seg is open inside tuv, tu, body and tmx: the stack is six deep
C28_Witness ==
  /\ tmx_pc = "chunk"
  /\ tag_name_stack = BodyChain
  /\ Len(xml.open) = 5
  /\ returned # <<>>

----------------------------------------------------------------------------
(* Claims about the skipped records, under SpecSkip *)

\* the loop body handles the end of an erroneous tu
BadTuStep == tmx_pc = "chunk" /\ next_read_line_index' # next_read_line_index

\* the record of the erroneous tu read as line n + 1 of the document: tu
\* elements without any sentence and with a source sentence only take turns
SkippedRecord(n) ==
  IF n % 2 = 1 THEN <<n + 1, None, None, MsgNoBoth>>
  ELSE <<n + 1, <<"a">>, None, MsgNoDst>>

----------------------------------------------------------------------------
(* Claims about _parse_tuv_element, under SpecTuv *)

\* the texts of the seg children only, in document order
SegTexts(children) ==
  LET idx == {k \in 1..Len(children) : children[k].tag = "seg"}
      RECURSIVE Pick(_)
      Pick(k) ==
        IF k > Len(children) THEN <<>>
        ELSE IF k \in idx THEN <<children[k].text>> \o Pick(k + 1)
        ELSE Pick(k + 1)
  IN  Pick(1)

\* C12: the text extracted for a tuv is the space-joined, trimmed text of
\* its seg elements only, in document order; the content of an unrecognized
\* element contributes nothing.  <seg>A</seg><prop>PPP</prop><seg>B</seg>
\* yields 'A B'.
C12_SegTextOnly ==
  tuv_result # <<>> =>
    /\ tuv_result[1].text = JoinStripped(SegTexts(tuv_element.children))
    /\ tuv_element.children =
         <<[tag |-> "seg", text |-> <<"A">>],
           [tag |-> "prop", text |-> <<"P", "P", "P">>],
           [tag |-> "seg", text |-> <<"B">>]>>
         => tuv_result[1].text = <<"A", " ", "B">>

----------------------------------------------------------------------------
(* Claims about _parse_tu_element, under SpecTu *)

\* the lower-cased primary subtag of a language code
PrimarySubtag(code) ==
  LET dashes == {k \in 1..Len(code) : code[k] = "-"}
      cut == IF dashes = {} THEN Len(code) + 1
             ELSE CHOOSE k \in dashes : \A j \in dashes : k <= j
  IN  [k \in 1..(cut - 1) |-> LowerChar(code[k])]

\* the texts of the tuv children whose xml:lang has the primary subtag of the
\* code
TextsIn(tuvs, code) ==
  {tuvs[k].texts[1] : k \in {j \in 1..Len(tuvs) :
      /\ tuvs[j].lang # None
      /\ tuvs[j].texts # <<>>
      /\ PrimarySubtag(tuvs[j].lang) = PrimarySubtag(code)}}

ReverseSeq(seq) == [k \in 1..Len(seq) |-> seq[Len(seq) + 1 - k]]

\* no two tuv children with a text are in one language
OneTuvPerLanguage(tuvs) ==
  \A j, k \in 1..Len(tuvs) :
    (/\ j # k
     /\ tuvs[j].lang # None /\ tuvs[k].lang # None
     /\ tuvs[j].texts # <<>> /\ tuvs[k].texts # <<>>)
      => PrimarySubtag(tuvs[j].lang) # PrimarySubtag(tuvs[k].lang)

\* C13: a tuv is taken as source or target by the lower-cased primary subtag
\* of its xml:lang against that of the configured codes (en-US matches
\* en-GB), whatever the order of the tuv elements, and a pair is always
\* (source text, target text): a tu with a text in each of two different
\* configured languages gives a pair, the first text of a pair is that of a
\* tuv in the source language and the second that of a tuv in the target
\* language, and reversing the tuv elements changes nothing when no language
\* occurs twice.
C13_AssignedByLanguage ==
  tu_result # <<>> =>
    LET r == tu_result[1]
        src_code == tu_codes[1]
        dst_code == tu_codes[2]
    IN  /\ r.error_message = "" =>
             /\ r.src \in TextsIn(tu_element, src_code)
             /\ r.dst \in TextsIn(tu_element, dst_code)
        /\ (/\ PrimarySubtag(src_code) # PrimarySubtag(dst_code)
            /\ TextsIn(tu_element, src_code) # {}
            /\ TextsIn(tu_element, dst_code) # {}) => r.error_message = ""
        /\ OneTuvPerLanguage(tu_element) =>
             parse_tu_element(ReverseSeq(tu_element), parse_locale(src_code),
                              parse_locale(dst_code)) = r

\* the target tuv (zh, 'B') comes before the source tuv (EN-US, 'A') in a tu
\* parsed for en-GB -> zh, and the pair is ('A', 'B')
C13_Witness ==
  /\ tu_codes = <<LangEnGB, LangZh>>
  /\ tu_element = <<[lang |-> LangZh, texts |-> <<<<"B">>>>],
                    [lang |-> LangEnUS, texts |-> <<<<"A">>>>]>>
  /\ tu_result = <<[src |-> <<"A">>, dst |-> <<"B">>, error_message |-> ""]>>

----------------------------------------------------------------------------
(* Claims about TsvParser, under SpecTsv *)

\* the lines of a content: what lies between its newlines; a newline at the
\* end of the content ends the last line rather than starting another
LinesOf(content) ==
  LET parts == SplitOn(content, Newline)
  IN  IF parts[Len(parts)] = <<>> THEN SubSeq(parts, 1, Len(parts) - 1)
      ELSE parts

NumFields(line) == Cardinality({k \in 1..Len(line) : line[k] = Tab}) + 1

\* the position of the first line that has not exactly two fields, or 0
FirstBadLine(lines) ==
  LET bad == {p \in 1..Len(lines) : NumFields(lines[p]) # 2}
  IN  IF bad = {} THEN 0 ELSE Least(bad)

\* the two fields of a line that has exactly one tab
PairOfLine(line) ==
  LET t == CHOOSE k \in 1..Len(line) : line[k] = Tab
  IN  <<SubSeq(line, 1, t - 1), SubSeq(line, t + 1, Len(line))>>

\* the pairs of the lines that precede the first bad line
GoodPairs(lines) ==
  LET n == IF FirstBadLine(lines) = 0 THEN Len(lines)
           ELSE FirstBadLine(lines) - 1
  IN  [p \in 1..n |-> PairOfLine(lines[p])]

IsPrefix(s, t) == Len(s) <= Len(t) /\ s = SubSeq(t, 1, Len(s))

\* the iteration yields the pairs of the lines before the first bad line, in
\* order, and ends there with InvalidFileFormatError citing that line, or ends
\* normally when no line is bad
FieldCountOutcome ==
  LET lines == LinesOf(tsv_input)
      bad == FirstBadLine(lines)
  IN  /\ IsPrefix(tsv_returned, GoodPairs(lines))
      /\ tsv_pc # "idle" => tsv_returned = GoodPairs(lines)
      /\ tsv_pc = "finished" => bad = 0
      /\ tsv_pc = "failed" =>
           /\ bad # 0
           /\ tsv_err.type = "InvalidFileFormatError"
           /\ tsv_err.line = bad

\* every line of the input, counted with its line terminator, is shorter than
\* the size handed to readline()
AllLinesShort ==
  \A p \in 1..Len(LinesOf(tsv_input)) :
    Len(LinesOf(tsv_input)[p]) + 1 < TsvBufferSize

\* C14 as stated: for every TSV input, TsvParser yields one pair per line of
\* exactly two tab-delimited fields and fails at the first line with another
\* field count, citing its 1-based position, without a pair from that line
C14_EveryInput == FieldCountOutcome

\* C14, for the inputs whose lines are all shorter than the read size:
\* TsvParser yields one pair per line of exactly two tab-delimited fields and
\* fails at the first line with another field count (an empty line included),
\* citing its 1-based position, without a pair from that line
C14_ShortLines == AllLinesShort => FieldCountOutcome

\* a pair was yielded and the second line, which is short, failed
C14_Witness ==
  /\ AllLinesShort
  /\ tsv_pc = "failed"
  /\ Len(tsv_returned) = 1
  /\ tsv_err.line = 2
  /\ tsv_err.message = MsgTwoPhrases

\* the position of the first line longer than the read size, or 0
FirstOverlongLine(lines) ==
  LET long == {p \in 1..Len(lines) : Len(lines[p]) > TsvBufferSize}
  IN  IF long = {} THEN 0 ELSE Least(long)

\* C15: a line longer than the read size makes TsvParser fail with
\* InvalidFileFormatError citing the length limit, and no piece of that line
\* is returned as a pair or parsed as a line of its own.  Stated for the
\* inputs whose lines before the first over-long one are short and have two
\* fields, so that the parser gets to the over-long line: the pairs returned
\* are those of the preceding lines, and the iteration ends with the
\* length-limit error.
C15_OverlongLineFails ==
  LET lines == LinesOf(tsv_input)
      p == FirstOverlongLine(lines)
  IN  (/\ p # 0
       /\ \A q \in 1..(p - 1) :
            NumFields(lines[q]) = 2 /\ Len(lines[q]) + 1 < TsvBufferSize)
      => /\ IsPrefix(tsv_returned, [q \in 1..(p - 1) |-> PairOfLine(lines[q])])
         /\ tsv_pc # "idle" =>
              /\ tsv_pc = "failed"
              /\ tsv_err.type = "InvalidFileFormatError"
              /\ tsv_err.message = MsgLineLength

----------------------------------------------------------------------------
(* Claims about the functions behind the commands, under SpecCommands *)

\* C17: when convert_input_files or AutoSplitUtil.autosplit raises the
\* unsupported-format error for an input or output path, no file has been
\* opened yet: no input opened, no output created or truncated
C17_NoIOBeforeUnsupported ==
  (cmd_call.cmd \in {"convert", "autosplit"} /\ cmd_err = NotImplementedError)
    => io_log = <<>>

\* the call has supported paths only and its input files are valid and hold
\* no pair
ZeroRecords ==
  /\ CmdPairs(cmd_call.inputs) = 0
  /\ \A k \in 1..Len(cmd_call.inputs) :
       cmd_call.inputs[k].ending = StopIteration
  /\ \A k \in 1..Len(cmd_call.inputs) : cmd_call.inputs[k].ext \in SupportedExts
  /\ FirstUnsupported(cmd_call.outputs) = 0

TmxConversion ==
  /\ cmd_call.cmd = "convert"
  /\ cmd_call.outputs = <<"tmx">>
  /\ cmd_exports # <<>>

\* what the TMX output holds
TmxWritten == Written("tmx", cmd_exports[1])

\* C23: in convert_input_files with a TMX output, the header is written once
\* and first, then one <tu> per fed pair in feed order, and the footer once
\* and last; the footer is there when the call has ended, whether the
\* iteration over the inputs completed or an error ended it partway
C23_HeaderTusFooter ==
  TmxConversion =>
    LET ended == cmd_pc \in {"done", "failed"}
        body == IF ended THEN Len(TmxWritten) - 1 ELSE Len(TmxWritten)
    IN  /\ TmxWritten[1] = Call("initialize")
        /\ body = cmd_total + 1
        /\ \A k \in 2..body : TmxWritten[k] = FeedCall(k - 1)
        /\ ended => TmxWritten[Len(TmxWritten)] = Call("finalize")

\* the parser of the second input raised after one pair was fed
C23_Witness ==
  /\ TmxConversion
  /\ cmd_pc = "failed"
  /\ cmd_err = InvalidFileFormatError
  /\ cmd_file = 2
  /\ cmd_total = 1
  /\ TmxWritten = <<Call("initialize"), FeedCall(1), Call("finalize")>>

\* the pairs that exporter j of AutoSplitUtil.autosplit has been fed, as
\* their ordinals among the pairs the parsers yielded, in feed order
FedPairs(j) ==
  LET feeds == SelectSeq(cmd_exports[j], LAMBDA c : c.call = "feed")
  IN  [k \in 1..Len(feeds) |-> feeds[k].pair]

SplitRun == cmd_call.cmd = "autosplit" /\ cmd_exports # <<>>

\* the feeds of the three exporters are a partition of the pairs 1..n, each
\* exporter holding its pairs in input order
SplitPartition(n) ==
  /\ \A j \in 1..Len(cmd_exports) :
       LET fed == FedPairs(j)
       IN  /\ \A k \in 1..Len(fed) : fed[k] \in 1..n
           /\ \A k1, k2 \in 1..Len(fed) : k1 < k2 => fed[k1] < fed[k2]
  /\ \A p \in 1..n :
       Cardinality({jk \in (1..Len(cmd_exports)) \X (1..n) :
                      /\ jk[2] <= Len(FedPairs(jk[1]))
                      /\ FedPairs(jk[1])[jk[2]] = p}) = 1

\* C27 as stated: in AutoSplitUtil.autosplit every pair the parsers have
\* yielded has been fed to exactly one of the three exporters exactly once,
\* and each exporter holds its pairs in input order. Violated when the
\* parsers yield more than total_size pairs: the draw for the first pair
\* beyond total_size raises ValueError and that pair is fed to no exporter.
C27_Partition_AsStated == SplitRun => SplitPartition(cmd_draws)

\* C27, amended: while the parsers have yielded no more than total_size
\* pairs, every pair yielded has been fed to exactly one of the three
\* exporters exactly once, and each exporter holds its pairs in input order,
\* so that the three outputs are a partition of the pairs yielded
C27_Partition ==
  (SplitRun /\ cmd_draws <= cmd_call.total_size) => SplitPartition(cmd_draws)

\* two input files of one pair each, split over two different exporters
C27_Witness ==
  /\ SplitRun
  /\ cmd_pc = "done"
  /\ cmd_call.total_size = 5
  /\ cmd_draws = 2
  /\ cmd_file = 3
  /\ \E j1, j2 \in 1..Len(cmd_exports) :
       /\ j1 # j2
       /\ FedPairs(j1) = <<1>>
       /\ FedPairs(j2) = <<2>>

----------------------------------------------------------------------------
(* Claims about the conversions, under SpecConvert *)

HasNone(text, chars) == \A k \in 1..Len(text) : text[k] \notin chars

\* every text of the pairs satisfies ok
AllTexts(pairs, ok(_)) ==
  \A k \in 1..Len(pairs) : ok(pairs[k][1]) /\ ok(pairs[k][2])

\* no tab and no XML-special character
PlainText(text) == HasNone(text, XmlSpecial \cup {"\t"})

\* moreover not empty, no line break, no white space at either end
CleanText(text) ==
  /\ PlainText(text)
  /\ text # <<>>
  /\ HasNone(text, {"\n", "\r"})
  /\ Strip(text) = text

\* the pairs were written in one codec, parsed, written in the other codec
\* and parsed
RoundTripDone ==
  /\ Len(rt_trail) = 2
  /\ rt_trail[1].codec # rt_trail[2].codec
  /\ rt_phase = "pairs"

\* one of the two parsers of a round trip raised
RoundTripFailed ==
  /\ rt_phase = "failed"
  /\ Len(rt_trail) <= 2
  /\ Len(rt_trail) = 2 => rt_trail[1].codec # rt_trail[2].codec

RoundTripExact == ~RoundTripFailed /\ (RoundTripDone => rt_cur = rt_pairs)

InputParsed == Parse(rt_trail[1].codec, rt_trail[1].content)

\* the files written after the input are out1 in a codec X, then a file in
\* the other codec Y, then a file in X again
ConvertedBackAndForth ==
  /\ Len(rt_trail) >= 3 => rt_trail[3].codec # rt_trail[2].codec
  /\ Len(rt_trail) >= 4 => rt_trail[4].codec = rt_trail[2].codec

\* no conversion failed and the second file in X is identical to out1
SameAsFirstOutput ==
  /\ rt_phase # "failed"
  /\ Len(rt_trail) = 4 => rt_trail[4].content = rt_trail[2].content

=============================================================================
